---------------------------- MODULE Spec2Model ----------------------------
(***************************************************************************)
(* A model of the pop interpreter (scan -> parse -> evaluate) and of its   *)
(* entry point run(fileName, text), which evaluates against one            *)
(* process-wide symbol table GLOBAL.                                       *)
(*                                                                         *)
(* Source text is a sequence of one-character strings.  JavaScript numbers *)
(* are modelled as normalised rationals n/d plus NaN; null is the "null"   *)
(* kind and undefined the "undef" kind.  An uncaught TypeError is the      *)
(* `threw` flag of a result.                                               *)
(***************************************************************************)
EXTENDS Integers, Sequences, FiniteSets, TLC

VARIABLES GLOBAL, before, text, out, runs, scan, ast

vars == <<GLOBAL, before, text, out, runs, scan, ast>>

-----------------------------------------------------------------------------
(* Token types and character classes                                       *)

INT == "INT"
FLOAT == "FLOAT"
IDENTIFIER == "IDENTIFIER"
KEYWORD == "KEYWORD"
PLUS == "PLUS"
MINUS == "MINUS"
MUL == "MUL"
DIV == "DIV"
POW == "POW"
ASSIGN == "ASSIGN"
LPAREN == "LPAREN"
RPAREN == "RPAREN"
EQ == "EQ"
NE == "NE"
LT == "LT"
GT == "GT"
LTE == "LTE"
GTE == "GTE"
EOF == "EOF"

\* The letters the model's texts use; the source's LETTERS is a-z and A-Z.
LETTERS ==
    {"a", "i", "n", "r", "x",
     "A", "D", "E", "F", "H", "I", "L", "N", "O", "P", "R", "S", "T", "U",
     "V", "W"}

DIGITS == {"0", "1", "2", "3", "4", "5", "6", "7", "8", "9"}

\* WHITESPACE with the newline in it
WHITESPACE_Newline == {" ", "\t", "\n"}

WHITESPACE == {" ", "\t"}

KEYWORDS ==
    {"VAR", "AND", "NOT", "OR", "IF", "DO", "ELIF", "ELSE", "FOR", "UPTO",
     "STEP", "WHILE"}

\* this.curr of the lexer when the input is exhausted (null)
NUL == ""

-----------------------------------------------------------------------------
(* Numbers: a JavaScript number is [k |-> "num", n, d] (the rational n/d,  *)
(* d > 0, in lowest terms) or [k |-> "nan"].                               *)

Abs(a) == IF a < 0 THEN -a ELSE a

RECURSIVE GCD(_, _)
GCD(a, b) == IF b = 0 THEN a ELSE GCD(b, a % b)

Norm(n, d) ==
    LET g == GCD(Abs(n), Abs(d))
        s == IF d < 0 THEN -1 ELSE 1
    IN  [k |-> "num", n |-> (s * n) \div g, d |-> (s * d) \div g]

Whole(n) == [k |-> "num", n |-> n, d |-> 1]

NaN == [k |-> "nan", n |-> 0, d |-> 1]


DigitVal(c) ==
    CASE c = "0" -> 0 [] c = "1" -> 1 [] c = "2" -> 2 [] c = "3" -> 3
      [] c = "4" -> 4 [] c = "5" -> 5 [] c = "6" -> 6 [] c = "7" -> 7
      [] c = "8" -> 8 [] c = "9" -> 9

RECURSIVE Pow10(_)
Pow10(e) == IF e = 0 THEN 1 ELSE 10 * Pow10(e - 1)

\* parseInt(num.join(''), 10) for a sequence of digits
RECURSIVE parseInt(_)
parseInt(num) ==
    IF num = <<>> THEN 0
    ELSE 10 * parseInt(SubSeq(num, 1, Len(num) - 1)) + DigitVal(num[Len(num)])

\* parseFloat(num.join('')) for digits with exactly one '.', digit first
parseFloat(num) ==
    LET dotAt == CHOOSE j \in 1..Len(num) : num[j] = "."
        whole == SubSeq(num, 1, dotAt - 1)
        frac  == SubSeq(num, dotAt + 1, Len(num))
    IN  Norm(parseInt(whole) * Pow10(Len(frac)) + parseInt(frac),
             Pow10(Len(frac)))

-----------------------------------------------------------------------------
(* Position                                                                *)

Position(idx, ln, col) == [idx |-> idx, ln |-> ln, col |-> col]

\* a start or end that was never set (null)
NoPos == Position(-9, -9, -9)

PosStep(p, curr) ==
    IF curr = "\n" THEN Position(p.idx + 1, p.ln + 1, 0)
    ELSE Position(p.idx + 1, p.ln, p.col + 1)

-----------------------------------------------------------------------------
(* Tokens.  A token value is null, a number, a string or (through the      *)
(* argument order of parseComp and parseEQ) a Position.  `live` marks an   *)
(* end that is the lexer's own Position object rather than a copy: it      *)
(* reads as wherever the lexer stands when it is read.                     *)

NullV == [k |-> "null", n |-> 0, d |-> 1, s |-> "", p |-> NoPos]
NumV(q) == [k |-> "num", n |-> q.n, d |-> q.d, s |-> "", p |-> NoPos]
StrV(s) == [k |-> "str", n |-> 0, d |-> 1, s |-> s, p |-> NoPos]
PosV(p) == [k |-> "pos", n |-> 0, d |-> 1, s |-> "", p |-> p]

\* new Token(type, value, start, end) with start !== null;
\* end = NoPos stands for the omitted (null) fourth argument
Token(type, value, start, end, endIsLive) ==
    [type  |-> type,
     value |-> value,
     start |-> start,
     end   |-> IF end = NoPos THEN PosStep(start, NUL) ELSE end,
     live  |-> end # NoPos /\ endIsLive]

\* Token.equals against new Token(KEYWORD, word)
equals(tok, type, word) ==
    tok.type = type /\ tok.value = StrV(word)

-----------------------------------------------------------------------------
(* Diagnostics                                                             *)

NoError == [name |-> "none", details |-> "", start |-> NoPos, end |-> NoPos,
            context |-> ""]

Error(start, end, errorName, details) ==
    [name |-> errorName, details |-> details, start |-> start, end |-> end,
     context |-> ""]

IllegalCharError(start, end, details) ==
    Error(start, end, "Illegal Character", details)

ExpectedCharError(start, end, details) ==
    Error(start, end, "Expected Character", details)

InvalidSyntaxError(start, end, details) ==
    Error(start, end, "Invalid Syntax", details)

RuntimeError(start, end, details, ctx) ==
    [name |-> "Runtime Error", details |-> details, start |-> start,
     end |-> end, context |-> ctx]

-----------------------------------------------------------------------------
(* Lexer.  A lexer state is [pos, curr].                                   *)

LexerStep(txt, L) ==
    LET p == PosStep(L.pos, L.curr)
    IN  [pos  |-> p,
         curr |-> IF p.idx >= Len(txt) THEN NUL ELSE txt[p.idx + 1]]

Lexer(txt) == LexerStep(txt, [pos |-> Position(-1, 0, -1), curr |-> NUL])

\* Each parse* operator returns [tok, err, L]: the token, the error and the
\* lexer state it leaves.

RECURSIVE NumberLoop(_, _, _, _)

\* NumberLoop with a literal that ends at its first '.'
NumberLoop_FirstDot(txt, L, num, dot) ==
    IF L.curr # NUL /\ (L.curr = "." \/ L.curr \in DIGITS)
    THEN IF L.curr = "."
         THEN [num |-> num, dot |-> dot, L |-> L]
         ELSE NumberLoop(txt, LexerStep(txt, L), Append(num, L.curr), dot)
    ELSE [num |-> num, dot |-> dot, L |-> L]

NumberLoop(txt, L, num, dot) ==
    IF L.curr # NUL /\ (L.curr = "." \/ L.curr \in DIGITS)
    THEN IF L.curr = "." /\ dot # 0
         THEN [num |-> num, dot |-> dot + 1, L |-> L]
         ELSE NumberLoop(txt, LexerStep(txt, L), Append(num, L.curr),
                         IF L.curr = "." THEN dot + 1 ELSE dot)
    ELSE [num |-> num, dot |-> dot, L |-> L]

parseNumber(txt, L) ==
    LET start == L.pos
        r == NumberLoop(txt, L, <<>>, 0)
    IN  [tok |-> IF r.dot = 0
                 THEN Token(INT, NumV(Whole(parseInt(r.num))), start,
                            r.L.pos, TRUE)
                 ELSE Token(FLOAT, NumV(parseFloat(r.num)), start,
                            r.L.pos, TRUE),
         err |-> NoError,
         L   |-> r.L]

RECURSIVE IdentifierLoop(_, _, _)
IdentifierLoop(txt, L, strID) ==
    IF L.curr # NUL
       /\ (L.curr \in LETTERS \/ L.curr \in DIGITS \/ L.curr = "_")
    THEN IdentifierLoop(txt, LexerStep(txt, L), strID \o L.curr)
    ELSE [strID |-> strID, L |-> L]

parseIdentifier(txt, L) ==
    LET start == L.pos
        r == IdentifierLoop(txt, L, "")
        tokenType == IF r.strID \in KEYWORDS THEN KEYWORD ELSE IDENTIFIER
    IN  [tok |-> Token(tokenType, StrV(r.strID), start, r.L.pos, TRUE),
         err |-> NoError,
         L   |-> r.L]

\* new Token(type, start, this.pos): start lands in the value parameter and
\* this.pos in the start parameter
\* parseComp without the test for a following '='
parseComp_NoLookahead(txt, L) ==
    [tok |-> Token(IF L.curr = ">" THEN GT ELSE LT, PosV(L.pos),
                   LexerStep(txt, L).pos, NoPos, FALSE),
     err |-> NoError,
     L   |-> LexerStep(txt, L)]

parseComp(txt, L) ==
    LET start == L.pos
        type == L.curr
        L1 == LexerStep(txt, L)
    IN  [tok |-> IF L1.curr = "="
                 THEN Token(IF type = ">" THEN GTE ELSE LTE, PosV(start),
                            L1.pos, NoPos, FALSE)
                 ELSE Token(IF type = ">" THEN GT ELSE LT, PosV(start),
                            L1.pos, NoPos, FALSE),
         err |-> NoError,
         L   |-> L1]

parseEQ(txt, L) ==
    LET start == L.pos
        L1 == LexerStep(txt, L)
    IN  [tok |-> IF L1.curr = "="
                 THEN Token(EQ, PosV(start), L1.pos, NoPos, FALSE)
                 ELSE Token(ASSIGN, PosV(start), L1.pos, NoPos, FALSE),
         err |-> NoError,
         L   |-> L1]

NoToken == Token(EOF, NullV, NoPos, NoPos, FALSE)

parseNE(txt, L) ==
    LET start == L.pos
        L1 == LexerStep(txt, L)
    IN  IF L1.curr = "="
        THEN [tok |-> Token(NE, NullV, start, NoPos, FALSE),
              err |-> NoError, L |-> L1]
        ELSE [tok |-> NoToken,
              err |-> ExpectedCharError(start, L1.pos, "'='"), L |-> L1]

\* the one-character tokens of makeTokens
SingleType(c) ==
    CASE c = "+" -> PLUS [] c = "-" -> MINUS [] c = "*" -> MUL
      [] c = "/" -> DIV [] c = "^" -> POW [] c = "(" -> LPAREN
      [] c = ")" -> RPAREN

\* A token's end that aliases the lexer's Position reads as the lexer's
\* final position once the scan is over.
Settle(tokens, pos) ==
    [j \in 1..Len(tokens) |->
        IF tokens[j].live THEN [tokens[j] EXCEPT !.end = pos]
        ELSE tokens[j]]

\* the illegal-character branch returning the tokens scanned so far
illegalChar_KeepsTokens(txt, L, tokens) ==
    [tokens |-> tokens,
     error  |-> IllegalCharError(L.pos, LexerStep(txt, L).pos,
                                 "'" \o L.curr \o "'")]

\* the last branch of makeTokens: a character that starts no token and is
\* not in WHITESPACE; the tokens pushed so far are dropped
illegalChar(txt, L, tokens) ==
    LET c == L.curr
        start == L.pos
        L1 == LexerStep(txt, L)
    IN  [tokens |-> <<>>,
         error  |-> IllegalCharError(start, L1.pos, "'" \o c \o "'")]

RECURSIVE TokensLoop(_, _, _)
TokensLoop(txt, L, tokens) ==
    CASE L.curr = NUL ->
           [tokens |-> Settle(Append(tokens,
                                     Token(EOF, NullV, L.pos, NoPos, FALSE)),
                              L.pos),
            error  |-> NoError]
      [] L.curr \in DIGITS ->
           TokensLoop(txt, parseNumber(txt, L).L,
                      Append(tokens, parseNumber(txt, L).tok))
      [] L.curr \in LETTERS ->
           TokensLoop(txt, parseIdentifier(txt, L).L,
                      Append(tokens, parseIdentifier(txt, L).tok))
      [] L.curr \in {"+", "-", "*", "/", "^", "(", ")"} ->
           TokensLoop(txt, LexerStep(txt, L),
                      Append(tokens, Token(SingleType(L.curr), NullV, L.pos,
                                           NoPos, FALSE)))
      [] L.curr = "!" /\ parseNE(txt, L).err # NoError ->
           [tokens |-> <<>>, error |-> parseNE(txt, L).err]
      [] L.curr = "!" ->
           TokensLoop(txt, LexerStep(txt, parseNE(txt, L).L),
                      Append(tokens, parseNE(txt, L).tok))
      [] L.curr = "=" ->
           TokensLoop(txt, LexerStep(txt, parseEQ(txt, L).L),
                      Append(tokens, parseEQ(txt, L).tok))
      [] L.curr \in {">", "<"} ->
           TokensLoop(txt, LexerStep(txt, parseComp(txt, L).L),
                      Append(tokens, parseComp(txt, L).tok))
      [] L.curr \notin WHITESPACE -> illegalChar(txt, L, tokens)
      [] OTHER -> TokensLoop(txt, LexerStep(txt, L), tokens)

makeTokens(txt) == TokensLoop(txt, Lexer(txt), <<>>)

-----------------------------------------------------------------------------
(* AST nodes                                                               *)

\* a null node (elseCase, stepVal, the node of a failed ParseResult)
NoNode == [type |-> "null"]

NumberNode(token) ==
    [type |-> "NumberNode", token |-> token,
     start |-> token.start, end |-> token.end]

IfStatementNode(cases, elseCase) ==
    [type |-> "IfStatementNode", cases |-> cases, elseCase |-> elseCase,
     start |-> cases[1][1].start,
     end |-> IF elseCase # NoNode THEN elseCase.end
             ELSE cases[Len(cases)][1].end]

VariableNode(tokenID) ==
    [type |-> "VariableNode", tokenID |-> tokenID,
     start |-> tokenID.start, end |-> tokenID.end]

VariableAssignNode(tokenID, value) ==
    [type |-> "VariableAssignNode", tokenID |-> tokenID, value |-> value,
     start |-> tokenID.start, end |-> value.end]

BinaryOpNode(left, operator, right) ==
    [type |-> "BinaryOpNode", left |-> left, op |-> operator,
     right |-> right, start |-> left.start, end |-> right.end]

UnaryOpNode(op, node) ==
    [type |-> "UnaryOpNode", op |-> op, node |-> node,
     start |-> op.start, end |-> node.end]

ForNode(varName, startVal, endVal, stepVal, body) ==
    [type |-> "ForNode", varName |-> varName, startVal |-> startVal,
     endVal |-> endVal, stepVal |-> stepVal, body |-> body,
     start |-> varName.start, end |-> body.end]

\* the constructor stores the condition under the name `conditon`
WhileNode(condition, body) ==
    [type |-> "WhileNode", conditon |-> condition, body |-> body,
     start |-> condition.start, end |-> body.end]

-----------------------------------------------------------------------------
(* ParseResult                                                             *)

ParseResult ==
    [error |-> NoError, node |-> NoNode, stepCount |-> 0, threw |-> FALSE]

registerStep(res) == [res EXCEPT !.stepCount = @ + 1]

register(res, sub) ==
    [res EXCEPT !.stepCount = @ + sub.stepCount,
                !.error = IF sub.error # NoError THEN sub.error ELSE @,
                !.threw = @ \/ sub.threw]

success(res, node) == [res EXCEPT !.node = node]

\* failure replacing an error whatever the step count
failure_Always(res, error) == [res EXCEPT !.error = error]

failure(res, error) ==
    IF res.error = NoError \/ res.stepCount = 0
    THEN [res EXCEPT !.error = error]
    ELSE res

-----------------------------------------------------------------------------
(* Parser.  A parser state is [idx, curr]; every rule returns [res, P]:    *)
(* its ParseResult and the parser state it leaves.                         *)

ParserStep(tokens, P) ==
    [idx  |-> P.idx + 1,
     curr |-> IF P.idx + 1 < Len(tokens) THEN tokens[P.idx + 2] ELSE P.curr]

Parser(tokens) == ParserStep(tokens, [idx |-> -1, curr |-> NoToken])

SyntaxAt(P, details) == InvalidSyntaxError(P.curr.start, P.curr.end, details)

\* this.curr.equals(KEYWORD, 'DO'): `other` is the string 'KEYWORD', whose
\* .type is undefined, so no token's type equals it
equalsString(tok) == tok.type = "undefined"

\* A rule's call of a rule, this.expr() and the like, goes through `rule`,
\* which dispatches on the rule's name.
RECURSIVE rule(_, _, _), exprLoop(_, _, _, _), compExprLoop(_, _, _, _),
          arithExprLoop(_, _, _, _), termLoop(_, _, _, _),
          powerLoop(_, _, _, _), elifLoop(_, _, _, _)


\* powerLoop with the right operand of '^' parsed by atom
powerLoop_Atom(tokens, P, res, left) ==
    IF P.curr.type = POW
    THEN LET op == P.curr
             f == rule("atom", tokens, ParserStep(tokens, P))
             res1 == register(registerStep(res), f.res)
         IN  IF f.res.error # NoError THEN [res |-> res1, P |-> f.P]
             ELSE powerLoop(tokens, f.P, res1,
                            BinaryOpNode(left, op, f.res.node))
    ELSE [res |-> success(res, left), P |-> P]

powerLoop(tokens, P, res, left) ==
    IF P.curr.type = POW
    THEN LET op == P.curr
             f == rule("factor", tokens, ParserStep(tokens, P))
             res1 == register(registerStep(res), f.res)
         IN  IF f.res.error # NoError THEN [res |-> res1, P |-> f.P]
             ELSE powerLoop(tokens, f.P, res1,
                            BinaryOpNode(left, op, f.res.node))
    ELSE [res |-> success(res, left), P |-> P]

power(tokens, P) ==
    LET a == rule("atom", tokens, P)
        res == register(ParseResult, a.res)
    IN  IF a.res.error # NoError THEN [res |-> res, P |-> a.P]
        ELSE powerLoop(tokens, a.P, res, a.res.node)

factor(tokens, P) ==
    LET currToken == P.curr
    IN  IF currToken.type = PLUS \/ currToken.type = MINUS
        THEN LET f == rule("factor", tokens, ParserStep(tokens, P))
                 res == register(registerStep(ParseResult), f.res)
             IN  IF f.res.error # NoError THEN [res |-> res, P |-> f.P]
                 ELSE [res |-> success(res, UnaryOpNode(currToken,
                                                        f.res.node)),
                       P |-> f.P]
        ELSE rule("power", tokens, P)

termLoop(tokens, P, res, left) ==
    IF P.curr.type = MUL \/ P.curr.type = DIV
    THEN LET op == P.curr
             f == rule("factor", tokens, ParserStep(tokens, P))
             res1 == register(registerStep(res), f.res)
         IN  IF f.res.error # NoError THEN [res |-> res1, P |-> f.P]
             ELSE termLoop(tokens, f.P, res1,
                           BinaryOpNode(left, op, f.res.node))
    ELSE [res |-> success(res, left), P |-> P]

term(tokens, P) ==
    LET f == rule("factor", tokens, P)
        res == register(ParseResult, f.res)
    IN  IF f.res.error # NoError THEN [res |-> res, P |-> f.P]
        ELSE termLoop(tokens, f.P, res, f.res.node)

arithExprLoop(tokens, P, res, left) ==
    IF P.curr.type \in {PLUS, MINUS}
    THEN LET opToken == P.curr
             t == rule("term", tokens, ParserStep(tokens, P))
             res1 == register(registerStep(res), t.res)
         IN  IF t.res.error # NoError
             THEN [res |-> failure(res1, SyntaxAt(t.P,
                     "Expected int, float, identifier, '+', '-', or '(', 'NOT'")),
                   P |-> t.P]
             ELSE arithExprLoop(tokens, t.P, res1,
                                BinaryOpNode(left, opToken, t.res.node))
    ELSE [res |-> success(res, left), P |-> P]

arithExpr(tokens, P) ==
    LET t == rule("term", tokens, P)
        res == register(ParseResult, t.res)
    IN  IF t.res.error # NoError THEN [res |-> res, P |-> t.P]
        ELSE arithExprLoop(tokens, t.P, res, t.res.node)

compExprLoop(tokens, P, res, left) ==
    IF P.curr.type \in {EQ, NE, LT, GT, LTE, GTE}
    THEN LET opToken == P.curr
             a == rule("arithExpr", tokens, ParserStep(tokens, P))
             res1 == register(registerStep(res), a.res)
         IN  IF a.res.error # NoError
             THEN [res |-> failure(res1, SyntaxAt(a.P,
                     "Expected int, float, identifier, '+', '-', or '(', 'NOT'")),
                   P |-> a.P]
             ELSE compExprLoop(tokens, a.P, res1,
                               BinaryOpNode(left, opToken, a.res.node))
    ELSE [res |-> success(res, left), P |-> P]

compExpr(tokens, P) ==
    IF equals(P.curr, KEYWORD, "NOT")
    THEN LET opToken == P.curr
             c == rule("compExpr", tokens, ParserStep(tokens, P))
             res == register(registerStep(ParseResult), c.res)
         IN  IF c.res.error # NoError THEN [res |-> res, P |-> c.P]
             ELSE [res |-> success(res, UnaryOpNode(opToken, c.res.node)),
                   P |-> c.P]
    ELSE LET a == rule("arithExpr", tokens, P)
             res == register(ParseResult, a.res)
         IN  IF a.res.error # NoError THEN [res |-> res, P |-> a.P]
             ELSE compExprLoop(tokens, a.P, res, a.res.node)

exprLoop(tokens, P, res, left) ==
    IF \/ P.curr.type = PLUS
       \/ P.curr.type = MINUS
       \/ (P.curr.type = KEYWORD
           /\ (P.curr.value = StrV("AND") \/ P.curr.value = StrV("OR")))
    THEN LET op == P.curr
             c == rule("compExpr", tokens, ParserStep(tokens, P))
             res1 == register(registerStep(res), c.res)
         IN  IF c.res.error # NoError
             THEN [res |-> failure(res1, SyntaxAt(c.P,
                     "Expected 'VAR', int, float, identifier, '+', '-', or '('")),
                   P |-> c.P]
             ELSE exprLoop(tokens, c.P, res1,
                           BinaryOpNode(left, op, c.res.node))
    ELSE [res |-> success(res, left), P |-> P]

expr(tokens, P) ==
    IF equals(P.curr, KEYWORD, "VAR")
    THEN LET res1 == registerStep(ParseResult)
             P1 == ParserStep(tokens, P)
         IN  IF P1.curr.type # IDENTIFIER
             THEN [res |-> failure(res1, SyntaxAt(P1, "Expected identifier")),
                   P |-> P1]
             ELSE
             LET varName == P1.curr
                 res2 == registerStep(res1)
                 P2 == ParserStep(tokens, P1)
             IN  IF P2.curr.type # ASSIGN
                 THEN [res |-> failure(res2, SyntaxAt(P2, "Expected '='")),
                       P |-> P2]
                 ELSE
                 LET e == rule("expr", tokens, ParserStep(tokens, P2))
                     res3 == register(registerStep(res2), e.res)
                 IN  IF e.res.error # NoError THEN [res |-> res3, P |-> e.P]
                     ELSE [res |-> success(res3,
                                     VariableAssignNode(varName, e.res.node)),
                           P |-> e.P]
    ELSE LET c == rule("compExpr", tokens, P)
             res == register(ParseResult, c.res)
         IN  IF c.res.error # NoError THEN [res |-> res, P |-> c.P]
             ELSE exprLoop(tokens, c.P, res, c.res.node)

\* the (KEYWORD:ELSE expr)? tail of ifExpr
ifElse(tokens, P, res, cases) ==
    IF equals(P.curr, KEYWORD, "ELSE")
    THEN LET e == rule("expr", tokens, ParserStep(tokens, P))
             res1 == register(registerStep(res), e.res)
         IN  IF e.res.error # NoError THEN [res |-> res1, P |-> e.P]
             ELSE [res |-> success(res1, IfStatementNode(cases, e.res.node)),
                   P |-> e.P]
    ELSE [res |-> success(res, IfStatementNode(cases, NoNode)), P |-> P]

\* the (KEYWORD:ELIF expr KEYWORD:DO expr)* loop of ifExpr
elifLoop(tokens, P, res, cases) ==
    IF equals(P.curr, KEYWORD, "ELIF")
    THEN LET c == rule("expr", tokens, ParserStep(tokens, P))
             res1 == register(registerStep(res), c.res)
         IN  IF c.res.error # NoError THEN [res |-> res1, P |-> c.P]
             ELSE IF ~equalsString(c.P.curr)
             THEN [res |-> failure(res1, SyntaxAt(c.P, "Expected 'THEN'")),
                   P |-> c.P]
             ELSE
             LET e == rule("expr", tokens, ParserStep(tokens, c.P))
                 res2 == register(registerStep(res1), e.res)
             IN  IF e.res.error # NoError THEN [res |-> res2, P |-> e.P]
                 \* cases.append is not a function
                 ELSE [res |-> [res2 EXCEPT !.threw = TRUE], P |-> e.P]
    ELSE ifElse(tokens, P, res, cases)

ifExpr(tokens, P) ==
    IF ~equals(P.curr, KEYWORD, "IF")
    THEN [res |-> failure(ParseResult, SyntaxAt(P, "Expected 'IF'")),
          P |-> P]
    ELSE
    LET c == rule("expr", tokens, ParserStep(tokens, P))
        res1 == register(registerStep(ParseResult), c.res)
    IN  IF c.res.error # NoError THEN [res |-> res1, P |-> c.P]
        ELSE IF ~equals(c.P.curr, KEYWORD, "DO")
        THEN [res |-> failure(res1, SyntaxAt(c.P, "Expected 'DO'")),
              P |-> c.P]
        ELSE
        LET e == rule("expr", tokens, ParserStep(tokens, c.P))
            res2 == register(registerStep(res1), e.res)
        IN  IF e.res.error # NoError THEN [res |-> res2, P |-> e.P]
            ELSE elifLoop(tokens, e.P, res2,
                          <<<<c.res.node, e.res.node>>>>)

\* forExpr from "const body = res.register(this.expr())" to its return
forBody(tokens, P, res, varName, startVal, endVal, stepVal) ==
    LET b == rule("expr", tokens, P)
        res6 == register(res, b.res)
    IN  IF b.res.error # NoError THEN [res |-> res6, P |-> b.P]
        ELSE [res |-> success(res6, ForNode(varName, startVal, endVal,
                                            stepVal, b.res.node)),
              P |-> b.P]

\* forExpr at the test for KEYWORD:DO
forDo(tokens, P, res, varName, startVal, endVal, stepVal) ==
    IF ~equals(P.curr, KEYWORD, "DO")
    THEN [res |-> failure(res, SyntaxAt(P, "Expected 'DO'")), P |-> P]
    ELSE forBody(tokens, ParserStep(tokens, P), registerStep(res),
                 varName, startVal, endVal, stepVal)

\* the (KEYWORD:STEP expr)? part of forExpr
forStep(tokens, P, res, varName, startVal, endVal) ==
    IF equals(P.curr, KEYWORD, "STEP")
    THEN LET st == rule("expr", tokens, ParserStep(tokens, P))
             res5 == register(registerStep(res), st.res)
         IN  IF st.res.error # NoError THEN [res |-> res5, P |-> st.P]
             ELSE forDo(tokens, st.P, res5, varName, startVal, endVal,
                        st.res.node)
    ELSE forDo(tokens, P, res, varName, startVal, endVal, NoNode)

\* forExpr from "const startVal = res.register(this.expr())" to endVal
forRange(tokens, P, res, varName) ==
    LET s == rule("expr", tokens, P)
        res3 == register(res, s.res)
    IN  IF s.res.error # NoError THEN [res |-> res3, P |-> s.P]
        ELSE IF ~equals(s.P.curr, KEYWORD, "UPTO")
        THEN [res |-> failure(res3, SyntaxAt(s.P, "Expected 'UPTO'")),
              P |-> s.P]
        ELSE
        LET e == rule("expr", tokens, ParserStep(tokens, s.P))
            res4 == register(registerStep(res3), e.res)
        IN  IF e.res.error # NoError THEN [res |-> res4, P |-> e.P]
            ELSE forStep(tokens, e.P, res4, varName, s.res.node, e.res.node)

forExpr(tokens, P) ==
    IF ~equals(P.curr, KEYWORD, "FOR")
    THEN [res |-> failure(ParseResult, SyntaxAt(P, "Expected 'FOR'")),
          P |-> P]
    ELSE
    LET res1 == registerStep(ParseResult)
        P1 == ParserStep(tokens, P)
    IN  IF P1.curr.type # IDENTIFIER
        THEN [res |-> failure(res1, SyntaxAt(P1, "Expected identifier")),
              P |-> P1]
        ELSE
        LET P2 == ParserStep(tokens, P1)
        IN  IF P2.curr.type # ASSIGN
            THEN [res |-> failure(registerStep(res1),
                                  SyntaxAt(P2, "Expected '='")),
                  P |-> P2]
            ELSE forRange(tokens, ParserStep(tokens, P2),
                          registerStep(registerStep(res1)), P1.curr)

whileExpr(tokens, P) ==
    IF ~equals(P.curr, KEYWORD, "WHILE")
    THEN [res |-> failure(ParseResult, SyntaxAt(P, "Expected 'WHILE'")),
          P |-> P]
    ELSE
    LET c == rule("expr", tokens, ParserStep(tokens, P))
        res1 == register(registerStep(ParseResult), c.res)
    IN  IF c.res.error # NoError THEN [res |-> res1, P |-> c.P]
        ELSE IF ~equals(c.P.curr, KEYWORD, "DO")
        THEN [res |-> failure(res1, SyntaxAt(c.P, "Expected 'DO'")),
              P |-> c.P]
        ELSE
        LET b == rule("expr", tokens, ParserStep(tokens, c.P))
            res2 == register(registerStep(res1), b.res)
        IN  IF b.res.error # NoError THEN [res |-> res2, P |-> b.P]
            ELSE [res |-> success(res2, WhileNode(c.res.node, b.res.node)),
                  P |-> b.P]

\* atom stepping over the token it rejects
atom_ConsumesRejected(tokens, P) ==
    LET currToken == P.curr
    IN  CASE currToken.type = INT \/ currToken.type = FLOAT ->
               [res |-> success(registerStep(ParseResult),
                                NumberNode(currToken)),
                P |-> ParserStep(tokens, P)]
          [] currToken.type = IDENTIFIER ->
               [res |-> success(registerStep(ParseResult),
                                VariableNode(currToken)),
                P |-> ParserStep(tokens, P)]
          [] currToken.type = LPAREN ->
               LET e == rule("expr", tokens, ParserStep(tokens, P))
                   res == register(registerStep(ParseResult), e.res)
               IN  IF e.res.error # NoError THEN [res |-> res, P |-> e.P]
                   ELSE IF e.P.curr.type = RPAREN
                   THEN [res |-> success(registerStep(res), e.res.node),
                         P |-> ParserStep(tokens, e.P)]
                   ELSE [res |-> failure(res, SyntaxAt(e.P, "Expected ')'")),
                         P |-> e.P]
          [] equals(currToken, KEYWORD, "IF") ->
               LET r == rule("ifExpr", tokens, P)
                   res == register(ParseResult, r.res)
               IN  IF r.res.error # NoError THEN [res |-> res, P |-> r.P]
                   ELSE [res |-> success(res, r.res.node), P |-> r.P]
          [] equals(currToken, KEYWORD, "FOR") ->
               LET r == rule("forExpr", tokens, P)
                   res == register(ParseResult, r.res)
               IN  IF r.res.error # NoError THEN [res |-> res, P |-> r.P]
                   ELSE [res |-> success(res, r.res.node), P |-> r.P]
          [] equals(currToken, KEYWORD, "WHILE") ->
               LET r == rule("whileExpr", tokens, P)
                   res == register(ParseResult, r.res)
               IN  IF r.res.error # NoError THEN [res |-> res, P |-> r.P]
                   ELSE [res |-> success(res, r.res.node), P |-> r.P]
          [] OTHER ->
               [res |-> failure(ParseResult,
                   InvalidSyntaxError(currToken.start, currToken.end,
                       "Expected int, float, identifier, '+', '-' or '('")),
                P |-> ParserStep(tokens, P)]

atom(tokens, P) ==
    LET currToken == P.curr
    IN  CASE currToken.type = INT \/ currToken.type = FLOAT ->
               [res |-> success(registerStep(ParseResult),
                                NumberNode(currToken)),
                P |-> ParserStep(tokens, P)]
          [] currToken.type = IDENTIFIER ->
               [res |-> success(registerStep(ParseResult),
                                VariableNode(currToken)),
                P |-> ParserStep(tokens, P)]
          [] currToken.type = LPAREN ->
               LET e == rule("expr", tokens, ParserStep(tokens, P))
                   res == register(registerStep(ParseResult), e.res)
               IN  IF e.res.error # NoError THEN [res |-> res, P |-> e.P]
                   ELSE IF e.P.curr.type = RPAREN
                   THEN [res |-> success(registerStep(res), e.res.node),
                         P |-> ParserStep(tokens, e.P)]
                   ELSE [res |-> failure(res, SyntaxAt(e.P, "Expected ')'")),
                         P |-> e.P]
          [] equals(currToken, KEYWORD, "IF") ->
               LET r == rule("ifExpr", tokens, P)
                   res == register(ParseResult, r.res)
               IN  IF r.res.error # NoError THEN [res |-> res, P |-> r.P]
                   ELSE [res |-> success(res, r.res.node), P |-> r.P]
          [] equals(currToken, KEYWORD, "FOR") ->
               LET r == rule("forExpr", tokens, P)
                   res == register(ParseResult, r.res)
               IN  IF r.res.error # NoError THEN [res |-> res, P |-> r.P]
                   ELSE [res |-> success(res, r.res.node), P |-> r.P]
          [] equals(currToken, KEYWORD, "WHILE") ->
               LET r == rule("whileExpr", tokens, P)
                   res == register(ParseResult, r.res)
               IN  IF r.res.error # NoError THEN [res |-> res, P |-> r.P]
                   ELSE [res |-> success(res, r.res.node), P |-> r.P]
          [] OTHER ->
               [res |-> failure(ParseResult,
                   InvalidSyntaxError(currToken.start, currToken.end,
                       "Expected int, float, identifier, '+', '-' or '('")),
                P |-> P]

rule(name, tokens, P) ==
    CASE name = "expr" -> expr(tokens, P)
      [] name = "compExpr" -> compExpr(tokens, P)
      [] name = "arithExpr" -> arithExpr(tokens, P)
      [] name = "term" -> term(tokens, P)
      [] name = "factor" -> factor(tokens, P)
      [] name = "power" -> power(tokens, P)
      [] name = "atom" -> atom(tokens, P)
      [] name = "ifExpr" -> ifExpr(tokens, P)
      [] name = "forExpr" -> forExpr(tokens, P)
      [] name = "whileExpr" -> whileExpr(tokens, P)

\* parse without the test for EOF
parse_NoEOFTest(tokens) == rule("expr", tokens, Parser(tokens)).res

\* Parser.parse: returns the ParseResult
parse(tokens) ==
    LET r == rule("expr", tokens, Parser(tokens))
    IN  IF r.res.error = NoError /\ r.P.curr.type # EOF
        THEN failure(r.res, SyntaxAt(r.P, "'Expected '+', '-', '*' or '/'"))
        ELSE r.res

-----------------------------------------------------------------------------
(* The arithmetic of Number on JavaScript numbers                          *)

\* a JavaScript number outside the rationals (an infinity, an irrational
\* power); no text of the model produces one
Other == [k |-> "other", n |-> 0, d |-> 1]

IsNum(a) == a.k = "num"

Arith(a, b, q) ==
    IF a.k = "other" \/ b.k = "other" THEN Other
    ELSE IF a.k = "nan" \/ b.k = "nan" THEN NaN
    ELSE q

JsAdd(a, b) == Arith(a, b, Norm(a.n * b.d + b.n * a.d, a.d * b.d))
JsSub(a, b) == Arith(a, b, Norm(a.n * b.d - b.n * a.d, a.d * b.d))
JsMul(a, b) == Arith(a, b, Norm(a.n * b.n, a.d * b.d))
JsDiv(a, b) == Arith(a, b, Norm(a.n * b.d, a.d * b.n))

RECURSIVE IntPow(_, _)
IntPow(b, e) == IF e = 0 THEN 1 ELSE b * IntPow(b, e - 1)

\* Math.pow
JsPow(a, b) ==
    IF IsNum(b) /\ b.n = 0 THEN Whole(1)
    ELSE IF a.k = "nan" \/ b.k = "nan" THEN NaN
    ELSE IF ~IsNum(a) \/ ~IsNum(b) \/ b.d # 1 THEN Other
    ELSE IF b.n > 0 THEN Norm(IntPow(a.n, b.n), IntPow(a.d, b.n))
    ELSE IF a.n = 0 THEN Other
    ELSE Norm(IntPow(a.d, -b.n), IntPow(a.n, -b.n))

JsLt(a, b) == IsNum(a) /\ IsNum(b) /\ a.n * b.d < b.n * a.d
JsEq(a, b) == IsNum(a) /\ IsNum(b) /\ a.n = b.n /\ a.d = b.d
JsIsZero(a) == IsNum(a) /\ a.n = 0

\* +(condition): 1 or 0
Bit(c) == IF c THEN Whole(1) ELSE Whole(0)

-----------------------------------------------------------------------------
(* Runtime values.  A value in flight is a Number object with its number,  *)
(* span and context, or null ("no value").  The symbol table keeps the     *)
(* number and the context of what it stores: no code reads the span of a   *)
(* stored value (traverseVariableNode overwrites it on the copy it reads). *)

\* the context run creates
MAIN == "<pop-main>"

\* the context of a Number on which setContext was called with no argument
NOCTX == "undefined"

Number(q) ==
    [k |-> q.k, n |-> q.n, d |-> q.d, start |-> NoPos, end |-> NoPos,
     context |-> NOCTX]

setPos(v, start, end) == [v EXCEPT !.start = start, !.end = end]

setContext(v, ctx) == [v EXCEPT !.context = ctx]

\* null as a value in flight
Null == [k |-> "null", n |-> 0, d |-> 1, start |-> NoPos, end |-> NoPos,
         context |-> NOCTX]

\* the number of a Number object
valueOf(v) == [k |-> v.k, n |-> v.n, d |-> v.d]

\* what the symbol table holds for a name
Stored(v) == [k |-> v.k, n |-> v.n, d |-> v.d, context |-> v.context]

\* Map.get of a name that was never set
Undefined == [k |-> "undef", n |-> 0, d |-> 1, context |-> NOCTX]

\* Each binary method returns [value, error]; on a Number `other` the
\* methods below; on a null `other` they return undefined.
add(this, other) ==
    [value |-> setContext(Number(JsAdd(valueOf(this), valueOf(other))),
                          this.context),
     error |-> NoError]

subtract(this, other) ==
    [value |-> setContext(Number(JsSub(valueOf(this), valueOf(other))),
                          this.context),
     error |-> NoError]

multiply(this, other) ==
    [value |-> setContext(Number(JsMul(valueOf(this), valueOf(other))),
                          this.context),
     error |-> NoError]

divide(this, other) ==
    IF JsIsZero(valueOf(other))
    THEN [value |-> Null,
          error |-> RuntimeError(other.start, other.end, "Division by zero",
                                 this.context)]
    ELSE [value |-> setContext(Number(JsDiv(valueOf(this), valueOf(other))),
                               this.context),
          error |-> NoError]

pow(this, other) ==
    [value |-> setContext(Number(JsPow(valueOf(this), valueOf(other))),
                          this.context),
     error |-> NoError]

getComp(this, truth) ==
    [value |-> setContext(Number(Bit(truth)), this.context),
     error |-> NoError]

getCompEq(this, other) == getComp(this, JsEq(valueOf(this), valueOf(other)))
getCompNe(this, other) == getComp(this, ~JsEq(valueOf(this), valueOf(other)))
getCompLt(this, other) == getComp(this, JsLt(valueOf(this), valueOf(other)))
getCompLte(this, other) ==
    getComp(this, JsLt(valueOf(this), valueOf(other))
                  \/ JsEq(valueOf(this), valueOf(other)))
getCompGt(this, other) == getComp(this, JsLt(valueOf(other), valueOf(this)))
getCompGte(this, other) ==
    getComp(this, JsLt(valueOf(other), valueOf(this))
                  \/ JsEq(valueOf(this), valueOf(other)))

getAnd(this, other) ==
    getComp(this, JsEq(valueOf(this), Whole(1))
                  /\ JsEq(valueOf(other), Whole(1)))

getOr(this, other) ==
    getComp(this, JsEq(valueOf(this), Whole(1))
                  \/ JsEq(valueOf(other), Whole(1)))

-----------------------------------------------------------------------------
(* Interpreter.  An evaluation state S is [env, log, walk]: the symbol     *)
(* table of the context, the values written by console.log in             *)
(* traverseForNode, and (a history of the walk) the nodes traverse was     *)
(* called on, in call order.  A traverse* operator returns an RTResult     *)
(* with the state it leaves; threw = TRUE is an uncaught TypeError.        *)

\* the names the model's programs use
Names == {"x", "i", "r", "n"}

RTResult(S) ==
    [value |-> Null, error |-> NoError, threw |-> FALSE, S |-> S]

rtSuccess(value, S) == [RTResult(S) EXCEPT !.value = value]


\* failure that leaves a value next to the error
rtFailure_KeepsValue(error, S) ==
    [RTResult(S) EXCEPT !.error = error, !.value = Number(Whole(0))]

rtFailure(error, S) == [RTResult(S) EXCEPT !.error = error]

TypeError(S) == [RTResult(S) EXCEPT !.threw = TRUE]

\* SymbolTable.get and SymbolTable.set on the one table without parent
get(env, varName) == env[varName]

set(env, varName, value) == [env EXCEPT ![varName] = Stored(value)]

\* the name a node binds: the tokenID of an assignment, the varName of a
\* loop
Binds(node) ==
    IF node.type = "VariableAssignNode" THEN node.tokenID.value.s
    ELSE IF node.type = "ForNode" THEN node.varName.value.s
    ELSE ""

Visit(S, node) ==
    [S EXCEPT !.walk = Append(@, [type |-> node.type,
                                  at |-> node.start.idx,
                                  name |-> Binds(node)])]

traverseNumberNode(node, ctx, S) ==
    rtSuccess(setPos(setContext(Number(node.token.value), ctx),
                     node.start, node.end), S)

\* traverseVariableNode reading a name that is not bound as 0
traverseVariableNode_ZeroDefault(node, ctx, S) ==
    LET value == get(S.env, node.tokenID.value.s)
    IN  IF value.k = "null" THEN TypeError(S)
        ELSE rtSuccess([k |-> "num", n |-> value.n, d |-> value.d,
                        start |-> node.start, end |-> node.end,
                        context |-> value.context], S)

traverseVariableNode(node, ctx, S) ==
    LET varName == node.tokenID.value.s
        value == get(S.env, varName)
    IN  IF value.k = "undef"
        THEN rtFailure(RuntimeError(node.start, node.end,
                                    "'" \o varName \o "' is not defined",
                                    ctx), S)
        \* null.copy is a TypeError
        ELSE IF value.k = "null" THEN TypeError(S)
        ELSE rtSuccess([k |-> value.k, n |-> value.n, d |-> value.d,
                        start |-> node.start, end |-> node.end,
                        context |-> value.context], S)

\* the dispatch on the operator of traverseBinaryOpNode for two Numbers
BinaryOp(op, left, right) ==
    LET r0  == [value |-> Null, error |-> NoError]
        r1  == IF op.type = PLUS THEN add(left, right) ELSE r0
        r2  == IF op.type = MINUS THEN subtract(left, right) ELSE r1
        r3  == IF op.type = MUL THEN multiply(left, right) ELSE r2
        r4  == IF op.type = DIV THEN divide(left, right) ELSE r3
        r5  == IF op.type = POW THEN pow(left, right) ELSE r4
        r6  == IF op.type = EQ THEN getCompEq(left, right) ELSE r5
        r7  == IF op.type = NE THEN getCompNe(left, right) ELSE r6
        r8  == IF op.type = LT THEN getCompLt(left, right) ELSE r7
        r9  == IF op.type = LTE THEN getCompLte(left, right) ELSE r8
        r10 == IF op.type = GT THEN getCompGt(left, right) ELSE r9
        r11 == IF op.type = GTE THEN getCompGte(left, right) ELSE r10
        r12 == IF equals(op, KEYWORD, "AND") THEN getAnd(left, right)
               ELSE r11
    IN  IF equals(op, KEYWORD, "OR") THEN getOr(left, right) ELSE r12

RECURSIVE traverse(_, _, _), traverseVariableAssignNode(_, _, _),
          traverseBinaryOpNode(_, _, _), traverseUnaryOpNode(_, _, _),
          traverseIfStatementNode(_, _, _), traverseCases(_, _, _, _),
          traverseForNode(_, _, _), ForLoop(_, _, _, _, _, _),
          traverseWhileNode(_, _, _)

\* traverseVariableAssignNode binding the name before it tests res.error
traverseVariableAssignNode_BindsFirst(node, ctx, S) ==
    LET varName == node.tokenID.value.s
        v == traverse(node.value, ctx, S)
    IN  IF v.threw THEN v
        ELSE IF v.error # NoError
        THEN [v EXCEPT !.S.env = set(@, varName, v.value)]
        ELSE rtSuccess(v.value,
                       [v.S EXCEPT !.env = set(@, varName, v.value)])

traverseVariableAssignNode(node, ctx, S) ==
    LET varName == node.tokenID.value.s
        v == traverse(node.value, ctx, S)
    IN  IF v.threw \/ v.error # NoError THEN v
        ELSE rtSuccess(v.value,
                       [v.S EXCEPT !.env = set(@, varName, v.value)])

\* traverseBinaryOpNode leaving the right operand of a decided AND or OR
\* unevaluated
traverseBinaryOpNode_ShortCircuit(node, ctx, S) ==
    LET l == traverse(node.left, ctx, S)
    IN  IF l.threw \/ l.error # NoError THEN l
        ELSE IF /\ equals(node.op, KEYWORD, "AND")
                /\ l.value.k # "null"
                /\ valueOf(l.value) # Whole(1)
        THEN rtSuccess(setPos(Number(Whole(0)), node.start, node.end), l.S)
        ELSE IF /\ equals(node.op, KEYWORD, "OR")
                /\ l.value.k # "null"
                /\ valueOf(l.value) = Whole(1)
        THEN rtSuccess(setPos(Number(Whole(1)), node.start, node.end), l.S)
        ELSE
        LET r == traverse(node.right, ctx, l.S)
        IN  IF r.threw \/ r.error # NoError THEN r
            ELSE IF l.value.k = "null" \/ r.value.k = "null"
            THEN TypeError(r.S)
            ELSE
            LET b == BinaryOp(node.op, l.value, r.value)
            IN  IF b.error # NoError THEN rtFailure(b.error, r.S)
                ELSE rtSuccess(setPos(b.value, node.start, node.end), r.S)

\* traverseBinaryOpNode evaluating the right operand after a failed left one
traverseBinaryOpNode_KeepsGoing(node, ctx, S) ==
    LET l == traverse(node.left, ctx, S)
    IN  IF l.threw THEN l
        ELSE
        LET r == traverse(node.right, ctx, l.S)
        IN  IF l.error # NoError THEN rtFailure(l.error, r.S)
            ELSE IF r.threw \/ r.error # NoError THEN r
            ELSE IF l.value.k = "null" \/ r.value.k = "null"
            THEN TypeError(r.S)
            ELSE
            LET b == BinaryOp(node.op, l.value, r.value)
            IN  IF b.error # NoError THEN rtFailure(b.error, r.S)
                ELSE rtSuccess(setPos(b.value, node.start, node.end), r.S)

traverseBinaryOpNode(node, ctx, S) ==
    LET l == traverse(node.left, ctx, S)
    IN  IF l.threw \/ l.error # NoError THEN l
        ELSE
        LET r == traverse(node.right, ctx, l.S)
        IN  IF r.threw \/ r.error # NoError THEN r
            \* a method of null, or destructuring the undefined that a
            \* method returns for an `other` that is no Number
            ELSE IF l.value.k = "null" \/ r.value.k = "null"
            THEN TypeError(r.S)
            ELSE
            LET b == BinaryOp(node.op, l.value, r.value)
            IN  IF b.error # NoError THEN rtFailure(b.error, r.S)
                ELSE rtSuccess(setPos(b.value, node.start, node.end), r.S)

traverseUnaryOpNode(node, ctx, S) ==
    LET v == traverse(node.node, ctx, S)
    IN  IF v.threw \/ v.error # NoError THEN v
        \* null.multiply, null.negate and null.setPos are TypeErrors
        ELSE IF v.value.k = "null" THEN TypeError(v.S)
        \* Number has no method negate
        ELSE IF equals(node.op, KEYWORD, "NOT") THEN TypeError(v.S)
        ELSE
        LET num == IF node.op.type = MINUS
                   THEN multiply(v.value, Number(Whole(-1))).value
                   ELSE v.value
        IN  rtSuccess(setPos(num, node.start, node.end), v.S)


\* traverseCases with a case taken only when its condition is 1
traverseCases_OnlyOne(node, ctx, S, j) ==
    IF j > Len(node.cases)
    THEN IF node.elseCase # NoNode
         THEN traverse(node.elseCase, ctx, S)
         ELSE rtSuccess(Null, S)
    ELSE
    LET cond == traverse(node.cases[j][1], ctx, S)
    IN  IF cond.threw \/ cond.error # NoError THEN cond
        ELSE IF cond.value.k = "null" THEN TypeError(cond.S)
        ELSE IF JsEq(valueOf(cond.value), Whole(1))
        THEN traverse(node.cases[j][2], ctx, cond.S)
        ELSE traverseCases(node, ctx, cond.S, j + 1)

\* the loop over node.cases from case number j on
traverseCases(node, ctx, S, j) ==
    IF j > Len(node.cases)
    THEN IF node.elseCase # NoNode
         THEN traverse(node.elseCase, ctx, S)
         ELSE rtSuccess(Null, S)
    ELSE
    LET cond == traverse(node.cases[j][1], ctx, S)
    IN  IF cond.threw \/ cond.error # NoError THEN cond
        \* null.value is a TypeError
        ELSE IF cond.value.k = "null" THEN TypeError(cond.S)
        ELSE IF ~JsIsZero(valueOf(cond.value))
        THEN traverse(node.cases[j][2], ctx, cond.S)
        ELSE traverseCases(node, ctx, cond.S, j + 1)

traverseIfStatementNode(node, ctx, S) == traverseCases(node, ctx, S, 1)

\* stepVal.val, a property no Number has
Val(stepVal) == NaN

\* the while loop of traverseForNode with the counter at i
\* the loop evaluating node.endVal anew before every test of the condition
ForLoop_ReevaluatesEnd(node, ctx, S, i, endVal, stepVal) ==
    LET e == traverse(node.endVal, ctx, S)
        inc == JsLt(Whole(0), valueOf(stepVal)) \/ JsIsZero(valueOf(stepVal))
    IN  IF e.threw \/ e.error # NoError THEN e
        ELSE IF (inc /\ JsLt(i, valueOf(e.value)))
                \/ (~inc /\ JsLt(valueOf(e.value), i))
        THEN LET S1 == [e.S EXCEPT
                          !.env = set(@, node.varName.value.s, Number(i)),
                          !.log = Append(@, i)]
                 i1 == JsAdd(i, Val(stepVal))
                 b == traverse(node.body, ctx, S1)
             IN  IF b.threw \/ b.error # NoError THEN b
                 ELSE ForLoop(node, ctx, b.S, i1, endVal, stepVal)
        ELSE rtSuccess(Null, e.S)

ForLoop(node, ctx, S, i, endVal, stepVal) ==
    LET inc == JsLt(Whole(0), valueOf(stepVal)) \/ JsIsZero(valueOf(stepVal))
    IN  IF (inc /\ JsLt(i, valueOf(endVal)))
           \/ (~inc /\ JsLt(valueOf(endVal), i))
        THEN LET S1 == [S EXCEPT
                          !.env = set(@, node.varName.value.s, Number(i)),
                          !.log = Append(@, i)]
                 i1 == JsAdd(i, Val(stepVal))
                 b == traverse(node.body, ctx, S1)
             IN  IF b.threw \/ b.error # NoError THEN b
                 ELSE ForLoop(node, ctx, b.S, i1, endVal, stepVal)
        ELSE rtSuccess(Null, S)

traverseForNode(node, ctx, S) ==
    LET s == traverse(node.startVal, ctx, S)
    IN  IF s.threw \/ s.error # NoError THEN s
        ELSE
        LET e == traverse(node.endVal, ctx, s.S)
        IN  IF e.threw \/ e.error # NoError THEN e
            ELSE
            LET st == IF node.stepVal # NoNode
                      THEN traverse(node.stepVal, ctx, e.S)
                      ELSE rtSuccess(Number(Whole(1)), e.S)
            IN  IF st.threw \/ st.error # NoError THEN st
                \* startVal.value, stepVal.value or endVal.value of null
                ELSE IF s.value.k = "null" \/ st.value.k = "null"
                        \/ e.value.k = "null"
                THEN TypeError(st.S)
                ELSE ForLoop(node, ctx, st.S, valueOf(s.value), e.value,
                             st.value)

\* `const res = RTResult()` calls a class constructor without new
traverseWhileNode(node, ctx, S) == TypeError(S)

traverse(node, ctx, S) ==
    LET S1 == Visit(S, node)
    IN  CASE node.type = "NumberNode" -> traverseNumberNode(node, ctx, S1)
          [] node.type = "UnaryOpNode" -> traverseUnaryOpNode(node, ctx, S1)
          [] node.type = "BinaryOpNode" -> traverseBinaryOpNode(node, ctx, S1)
          [] node.type = "VariableAssignNode" ->
                traverseVariableAssignNode(node, ctx, S1)
          [] node.type = "VariableNode" -> traverseVariableNode(node, ctx, S1)
          [] node.type = "IfStatementNode" ->
                traverseIfStatementNode(node, ctx, S1)
          [] node.type = "ForNode" -> traverseForNode(node, ctx, S1)
          [] node.type = "WhileNode" -> traverseWhileNode(node, ctx, S1)

-----------------------------------------------------------------------------
(* The source texts handed to run                                          *)

\* VAR x = 5
T_VarX5 ==
    <<"V", "A", "R", " ", "x", " ", "=", " ", "5">>

\* x + 1
T_XPlus1 ==
    <<"x", " ", "+", " ", "1">>

\* x
T_X ==
    <<"x">>

\* VAR i = 0
T_VarI0 ==
    <<"V", "A", "R", " ", "i", " ", "=", " ", "0">>

\* VAR i = i + 1
T_VarIInc ==
    <<"V", "A", "R", " ", "i", " ", "=", " ", "i", " ", "+", " ", "1">>

\* WHILE i < 3 DO VAR i = i + 1
T_While3 ==
    <<"W", "H", "I", "L", "E", " ", "i", " ", "<", " ", "3", " ", "D", "O",
      " ", "V", "A", "R", " ", "i", " ", "=", " ", "i", " ", "+", " ", "1">>

\* WHILE i < 0 DO VAR i = i + 1
T_While0 ==
    <<"W", "H", "I", "L", "E", " ", "i", " ", "<", " ", "0", " ", "D", "O",
      " ", "V", "A", "R", " ", "i", " ", "=", " ", "i", " ", "+", " ", "1">>

\* FOR i = 0 UPTO 3 DO VAR r = i
T_For03 ==
    <<"F", "O", "R", " ", "i", " ", "=", " ", "0", " ", "U", "P", "T", "O",
      " ", "3", " ", "D", "O", " ", "V", "A", "R", " ", "r", " ", "=", " ",
      "i">>

\* FOR i = 0 UPTO 1 DO VAR r = i
T_For01 ==
    <<"F", "O", "R", " ", "i", " ", "=", " ", "0", " ", "U", "P", "T", "O",
      " ", "1", " ", "D", "O", " ", "V", "A", "R", " ", "r", " ", "=", " ",
      "i">>

\* FOR i = 1 UPTO 2 DO VAR r = i
T_For12 ==
    <<"F", "O", "R", " ", "i", " ", "=", " ", "1", " ", "U", "P", "T", "O",
      " ", "2", " ", "D", "O", " ", "V", "A", "R", " ", "r", " ", "=", " ",
      "i">>

\* FOR i = 1 UPTO 3 DO VAR r = i
T_For13 ==
    <<"F", "O", "R", " ", "i", " ", "=", " ", "1", " ", "U", "P", "T", "O",
      " ", "3", " ", "D", "O", " ", "V", "A", "R", " ", "r", " ", "=", " ",
      "i">>

\* IF 0 DO 1 ELSE 2
T_If0 ==
    <<"I", "F", " ", "0", " ", "D", "O", " ", "1", " ", "E", "L", "S", "E",
      " ", "2">>

\* IF 1 DO 1 ELSE 2
T_If1 ==
    <<"I", "F", " ", "1", " ", "D", "O", " ", "1", " ", "E", "L", "S", "E",
      " ", "2">>

\* IF 0 DO VAR x = 1 ELSE VAR r = 2
T_IfAssign0 ==
    <<"I", "F", " ", "0", " ", "D", "O", " ", "V", "A", "R", " ", "x", " ",
      "=", " ", "1", " ", "E", "L", "S", "E", " ", "V", "A", "R", " ", "r",
      " ", "=", " ", "2">>

\* IF 1 DO VAR x = 1 ELSE VAR r = 2
T_IfAssign1 ==
    <<"I", "F", " ", "1", " ", "D", "O", " ", "V", "A", "R", " ", "x", " ",
      "=", " ", "1", " ", "E", "L", "S", "E", " ", "V", "A", "R", " ", "r",
      " ", "=", " ", "2">>

\* IF 0 DO VAR x = 1
T_IfNoElse0 ==
    <<"I", "F", " ", "0", " ", "D", "O", " ", "V", "A", "R", " ", "x", " ",
      "=", " ", "1">>

\* IF 2 DO VAR x = 1
T_IfNoElse2 ==
    <<"I", "F", " ", "2", " ", "D", "O", " ", "V", "A", "R", " ", "x", " ",
      "=", " ", "1">>

\* IF VAR n = 0 DO VAR x = 1 ELSE VAR r = n
T_IfCondAssign ==
    <<"I", "F", " ", "V", "A", "R", " ", "n", " ", "=", " ", "0", " ", "D",
      "O", " ", "V", "A", "R", " ", "x", " ", "=", " ", "1", " ", "E", "L",
      "S", "E", " ", "V", "A", "R", " ", "r", " ", "=", " ", "n">>

\* IF 0 DO 1 ELIF 1 DO 2 ELSE 3
T_Elif ==
    <<"I", "F", " ", "0", " ", "D", "O", " ", "1", " ", "E", "L", "I", "F",
      " ", "1", " ", "D", "O", " ", "2", " ", "E", "L", "S", "E", " ", "3">>

\* 2^3^2
T_Pow232 ==
    <<"2", "^", "3", "^", "2">>

\* 3^2^2
T_Pow322 ==
    <<"3", "^", "2", "^", "2">>

\* 2^2^3
T_Pow223 ==
    <<"2", "^", "2", "^", "3">>

\* 3^2^1
T_Pow321 ==
    <<"3", "^", "2", "^", "1">>

\* x^1^x
T_PowX ==
    <<"x", "^", "1", "^", "x">>

\* (1+1)^3^2
T_PowParen ==
    <<"(", "1", "+", "1", ")", "^", "3", "^", "2">>

\* 3/0
T_Div30 ==
    <<"3", "/", "0">>

\* 3/0 
T_Div30Sp ==
    <<"3", "/", "0", " ">>

\* 3/0 + 1
T_Div30Plus ==
    <<"3", "/", "0", " ", "+", " ", "1">>

\* (6/(1-1))*2
T_DivParen ==
    <<"(", "6", "/", "(", "1", "-", "1", ")", ")", "*", "2">>

\* 1 + 4/x
T_DivX ==
    <<"1", " ", "+", " ", "4", "/", "x">>

\* 6/4
T_Div62 ==
    <<"6", "/", "4">>

\* NOT 0
T_Not0 ==
    <<"N", "O", "T", " ", "0">>

\* 1 + (IF 0 DO 1)
T_NoValOperand ==
    <<"1", " ", "+", " ", "(", "I", "F", " ", "0", " ", "D", "O", " ", "1",
      ")">>

\* (FOR i = 0 UPTO 1 DO 1) + 1
T_ForOperand ==
    <<"(", "F", "O", "R", " ", "i", " ", "=", " ", "0", " ", "U", "P", "T",
      "O", " ", "1", " ", "D", "O", " ", "1", ")", " ", "+", " ", "1">>

\* VAR x = IF 0 DO 1
T_VarNoVal ==
    <<"V", "A", "R", " ", "x", " ", "=", " ", "I", "F", " ", "0", " ", "D",
      "O", " ", "1">>

\* VAR r = FOR i = 0 UPTO 1 DO 1
T_VarLoop ==
    <<"V", "A", "R", " ", "r", " ", "=", " ", "F", "O", "R", " ", "i", " ",
      "=", " ", "0", " ", "U", "P", "T", "O", " ", "1", " ", "D", "O", " ",
      "1">>

\* 12.5
T_Float ==
    <<"1", "2", ".", "5">>

\* 1..2
T_DotDot ==
    <<"1", ".", ".", "2">>

\* 1 ! 2
T_Bang ==
    <<"1", " ", "!", " ", "2">>

\* 1\n2
T_Newline ==
    <<"1", "\n", "2">>

\* 1 +
T_Trailing ==
    <<"1", " ", "+">>

\* VAR n = 0
T_DriverVar ==
    <<"V", "A", "R", " ", "n", " ", "=", " ", "0">>

\* n = 2 + 1
T_DriverAssign ==
    <<"n", " ", "=", " ", "2", " ", "+", " ", "1">>

\* VAR x 5
T_VarSyntax ==
    <<"V", "A", "R", " ", "x", " ", "5">>

\* VAR x = 1 2
T_TrailAssign ==
    <<"V", "A", "R", " ", "x", " ", "=", " ", "1", " ", "2">>

\* (VAR x = 1) + 1/0
T_AssignDiv ==
    <<"(", "V", "A", "R", " ", "x", " ", "=", " ", "1", ")", " ", "+", " ",
      "1", "/", "0">>

\* 1/0 + (VAR x = 7)
T_DivThenAssign ==
    <<"1", "/", "0", " ", "+", " ", "(", "V", "A", "R", " ", "x", " ", "=",
      " ", "7", ")">>

\* 
T_Empty ==
    <<>>

\* (1
T_ParenOpen ==
    <<"(", "1">>

\* 1 AND
T_AndDangling ==
    <<"1", " ", "A", "N", "D">>

\* x 2
T_XTrailing ==
    <<"x", " ", "2">>

\* IF 0 DO 1 ELIF 1 DO 2
T_ElifNoElse ==
    <<"I", "F", " ", "0", " ", "D", "O", " ", "1", " ", "E", "L", "I", "F",
      " ", "1", " ", "D", "O", " ", "2">>

\* VAR x = 1/0
T_VarDiv ==
    <<"V", "A", "R", " ", "x", " ", "=", " ", "1", "/", "0">>

\* 2 AND 3
T_And23 ==
    <<"2", " ", "A", "N", "D", " ", "3">>

\* 1 AND 0
T_And10 ==
    <<"1", " ", "A", "N", "D", " ", "0">>

\* 1 AND 1
T_And11 ==
    <<"1", " ", "A", "N", "D", " ", "1">>

\* 2 OR 0
T_Or20 ==
    <<"2", " ", "O", "R", " ", "0">>

\* 0 OR 0
T_Or00 ==
    <<"0", " ", "O", "R", " ", "0">>

\* 0 OR 1
T_Or01 ==
    <<"0", " ", "O", "R", " ", "1">>

\* NOT 1
T_Not1 ==
    <<"N", "O", "T", " ", "1">>

\* NOT 2
T_Not2 ==
    <<"N", "O", "T", " ", "2">>

\* -2
T_Neg2 ==
    <<"-", "2">>

\* -x
T_NegX ==
    <<"-", "x">>

\* 0 AND (VAR x = 1)
T_AndAssign ==
    <<"0", " ", "A", "N", "D", " ", "(", "V", "A", "R", " ", "x", " ", "=",
      " ", "1", ")">>

\* 1 OR (VAR x = 1)
T_OrAssign ==
    <<"1", " ", "O", "R", " ", "(", "V", "A", "R", " ", "x", " ", "=", " ",
      "1", ")">>

\* (VAR r = 2) + (VAR x = 1)
T_PlusAssign ==
    <<"(", "V", "A", "R", " ", "r", " ", "=", " ", "2", ")", " ", "+", " ",
      "(", "V", "A", "R", " ", "x", " ", "=", " ", "1", ")">>

\* 1/0 + 2/0
T_DivDiv ==
    <<"1", "/", "0", " ", "+", " ", "2", "/", "0">>

\* FOR i = 0 UPTO 3 DO 1/0
T_ForDiv ==
    <<"F", "O", "R", " ", "i", " ", "=", " ", "0", " ", "U", "P", "T", "O",
      " ", "3", " ", "D", "O", " ", "1", "/", "0">>

\* IF 1/0 DO VAR x = 1 ELSE VAR r = 2
T_IfDiv ==
    <<"I", "F", " ", "1", "/", "0", " ", "D", "O", " ", "V", "A", "R", " ",
      "x", " ", "=", " ", "1", " ", "E", "L", "S", "E", " ", "V", "A", "R",
      " ", "r", " ", "=", " ", "2">>

\* FOR i = 0 UPTO 4 STEP 2 DO VAR r = i
T_ForStep2 ==
    <<"F", "O", "R", " ", "i", " ", "=", " ", "0", " ", "U", "P", "T", "O",
      " ", "4", " ", "S", "T", "E", "P", " ", "2", " ", "D", "O", " ", "V",
      "A", "R", " ", "r", " ", "=", " ", "i">>

\* FOR i = 1 UPTO -1 STEP -1 DO VAR r = i
T_ForDown ==
    <<"F", "O", "R", " ", "i", " ", "=", " ", "1", " ", "U", "P", "T", "O",
      " ", "-", "1", " ", "S", "T", "E", "P", " ", "-", "1", " ", "D", "O",
      " ", "V", "A", "R", " ", "r", " ", "=", " ", "i">>

\* FOR i = 3 UPTO 0 DO VAR r = i
T_ForEmpty ==
    <<"F", "O", "R", " ", "i", " ", "=", " ", "3", " ", "U", "P", "T", "O",
      " ", "0", " ", "D", "O", " ", "V", "A", "R", " ", "r", " ", "=", " ",
      "i">>

\* FOR i = 0 UPTO 3 STEP -1 DO VAR r = i
T_ForEmptyDown ==
    <<"F", "O", "R", " ", "i", " ", "=", " ", "0", " ", "U", "P", "T", "O",
      " ", "3", " ", "S", "T", "E", "P", " ", "-", "1", " ", "D", "O", " ",
      "V", "A", "R", " ", "r", " ", "=", " ", "i">>

\* FOR i = 0 UPTO 1 STEP 1 DO VAR r = i
T_ForStep1 ==
    <<"F", "O", "R", " ", "i", " ", "=", " ", "0", " ", "U", "P", "T", "O",
      " ", "1", " ", "S", "T", "E", "P", " ", "1", " ", "D", "O", " ", "V",
      "A", "R", " ", "r", " ", "=", " ", "i">>

\* FOR i = 0 UPTO 3 DO VAR i = 1
T_ForAssignVar ==
    <<"F", "O", "R", " ", "i", " ", "=", " ", "0", " ", "U", "P", "T", "O",
      " ", "3", " ", "D", "O", " ", "V", "A", "R", " ", "i", " ", "=", " ",
      "1">>

\* FOR i = 0 UPTO n DO VAR n = 0
T_ForAssignEnd ==
    <<"F", "O", "R", " ", "i", " ", "=", " ", "0", " ", "U", "P", "T", "O",
      " ", "n", " ", "D", "O", " ", "V", "A", "R", " ", "n", " ", "=", " ",
      "0">>

\* VAR n = 2
T_VarN2 ==
    <<"V", "A", "R", " ", "n", " ", "=", " ", "2">>

Texts ==
    {T_VarX5, T_XPlus1, T_X, T_VarI0, T_VarIInc, T_While3, T_While0,
     T_For03, T_For01, T_For12, T_For13, T_If0, T_If1, T_IfAssign0,
     T_IfAssign1, T_IfNoElse0, T_IfNoElse2, T_IfCondAssign, T_Elif,
     T_Pow232, T_Pow322, T_Pow223, T_Pow321, T_PowX, T_PowParen, T_Div30,
     T_Div30Sp, T_Div30Plus, T_DivParen, T_DivX, T_Div62, T_Not0,
     T_NoValOperand, T_ForOperand, T_VarNoVal, T_VarLoop, T_Float,
     T_DotDot, T_Bang, T_Newline, T_Trailing, T_DriverVar, T_DriverAssign,
     T_VarSyntax, T_TrailAssign, T_AssignDiv, T_DivThenAssign, T_Empty,
     T_ParenOpen, T_AndDangling, T_XTrailing, T_ElifNoElse, T_VarDiv,
     T_And23, T_And10, T_And11, T_Or20, T_Or00, T_Or01}

\* the texts of the evaluation runs
EvalTexts ==
    {T_VarX5, T_X, T_VarI0, T_Not0, T_DivThenAssign, T_AssignDiv,
     T_VarNoVal, T_VarLoop, T_For03, T_XPlus1, T_Not1, T_Not2, T_Neg2,
     T_NegX, T_AndAssign, T_OrAssign, T_PlusAssign, T_DivDiv, T_ForDiv,
     T_IfDiv, T_ForStep2, T_ForDown, T_ForEmpty, T_ForEmptyDown,
     T_ForStep1, T_ForAssignVar, T_ForAssignEnd, T_VarN2}

-----------------------------------------------------------------------------
(* run and the process state.  GLOBAL is the symbol table, `text` the      *)
(* text of the last call, `before` the symbol table at its start, `scan`   *)
(* and `ast` what its lexer and parser returned and `out` what it          *)
(* returned: [value, error], or threw.                                     *)

\* the number of run calls the model follows
MaxRuns == 3

SymbolTable == [nm \in Names |-> Undefined]

NoScan == [tokens |-> <<>>, error |-> NoError]

Out(value, error, threw, S) ==
    [value |-> value, error |-> error, threw |-> threw, log |-> S.log,
     walk |-> S.walk]

Start(env) == [env |-> env, log |-> <<>>, walk |-> <<>>]


\* step 3 of run: the value and error of the traversal
runInterpret(lex, tree, res) ==
    [scan |-> lex, ast |-> tree, env |-> res.S.env,
     out |-> Out(res.value, res.error, res.threw, res.S)]

\* runConstruct returning on a missing node instead of on ast.error
runConstruct_TestsNode(lex, tree, env) ==
    IF tree.threw
    THEN [scan |-> lex, ast |-> tree, env |-> env,
          out |-> Out(Null, NoError, TRUE, Start(env))]
    ELSE IF tree.node = NoNode
    THEN [scan |-> lex, ast |-> tree, env |-> env,
          out |-> Out(Null, tree.error, FALSE, Start(env))]
    ELSE runInterpret(lex, tree, traverse(tree.node, MAIN, Start(env)))

\* runConstruct with a symbol table of its own in every call
runConstruct_OwnTable(lex, tree, env) ==
    IF tree.threw
    THEN [scan |-> lex, ast |-> tree, env |-> env,
          out |-> Out(Null, NoError, TRUE, Start(env))]
    ELSE IF tree.error # NoError
    THEN [scan |-> lex, ast |-> tree, env |-> env,
          out |-> Out(Null, tree.error, FALSE, Start(env))]
    ELSE runInterpret(lex, tree,
                      traverse(tree.node, MAIN, Start(SymbolTable)))

\* runConstruct returning ast.error only when the walk of the node the
\* failed parse left raises no diagnostic of its own
runConstruct_WalksFirst(lex, tree, env) ==
    IF tree.threw
    THEN [scan |-> lex, ast |-> tree, env |-> env,
          out |-> Out(Null, NoError, TRUE, Start(env))]
    ELSE IF /\ tree.error # NoError
            /\ \/ tree.node = NoNode
               \/ traverse(tree.node, MAIN, Start(env)).error = NoError
    THEN [scan |-> lex, ast |-> tree, env |-> env,
          out |-> Out(Null, tree.error, FALSE, Start(env))]
    ELSE runInterpret(lex, tree, traverse(tree.node, MAIN, Start(env)))

\* step 2 of run: "if (ast.error) return [null, ast.error]", then the
\* traversal in a context on the table env
\* runConstruct giving the environment back as it was when the walk fails
runConstruct_Rollback(lex, tree, env) ==
    IF tree.threw
    THEN [scan |-> lex, ast |-> tree, env |-> env,
          out |-> Out(Null, NoError, TRUE, Start(env))]
    ELSE IF tree.error # NoError
    THEN [scan |-> lex, ast |-> tree, env |-> env,
          out |-> Out(Null, tree.error, FALSE, Start(env))]
    ELSE IF traverse(tree.node, MAIN, Start(env)).error # NoError
    THEN [runInterpret(lex, tree, traverse(tree.node, MAIN, Start(env)))
             EXCEPT !.env = env]
    ELSE runInterpret(lex, tree, traverse(tree.node, MAIN, Start(env)))

runConstruct(lex, tree, env) ==
    IF tree.threw
    THEN [scan |-> lex, ast |-> tree, env |-> env,
          out |-> Out(Null, NoError, TRUE, Start(env))]
    ELSE IF tree.error # NoError
    THEN [scan |-> lex, ast |-> tree, env |-> env,
          out |-> Out(Null, tree.error, FALSE, Start(env))]
    ELSE runInterpret(lex, tree, traverse(tree.node, MAIN, Start(env)))

\* step 1 of run: "if (error) return [null, error]", then the parse
runTokenize(lex, env) ==
    IF lex.error # NoError
    THEN [scan |-> lex, ast |-> ParseResult, env |-> env,
          out |-> Out(Null, lex.error, FALSE, Start(env))]
    ELSE runConstruct(lex, parse(lex.tokens), env)

\* run(fileName, text) on the symbol table env:
\* [scan, ast, out, env] with env the symbol table afterwards
run(txt, env) == runTokenize(makeTokens(txt), env)

\* the assignments a call of run makes to the state
Ran(r) ==
    /\ GLOBAL' = r.env
    /\ out' = r.out
    /\ scan' = r.scan
    /\ ast' = r.ast

Init ==
    /\ GLOBAL = SymbolTable
    /\ before = SymbolTable
    /\ text = <<>>
    /\ out = Out(Null, NoError, FALSE, Start(SymbolTable))
    /\ runs = 0
    /\ scan = NoScan
    /\ ast = ParseResult

Run(txt) ==
    /\ runs < MaxRuns
    /\ Ran(run(txt, GLOBAL))
    /\ before' = GLOBAL
    /\ text' = txt
    /\ runs' = runs + 1

Next == \E txt \in Texts : Run(txt)

Spec == Init /\ [][Next]_vars

\* the calls of run on the texts of EvalTexts
NextEval == \E txt \in EvalTexts : Run(txt)

SpecEval == Init /\ [][NextEval]_vars

-----------------------------------------------------------------------------
(* The lexer on its own: every text over LexChars of at most MaxLen        *)
(* characters is scanned once.                                             *)

\* the longest text scanned
MaxLen == 4

LexChars ==
    {"1", "2", "5", ".", "a", "<", ">", "=", "!", " ", "\t", "\n"}

LexTexts == UNION {[1..len -> LexChars] : len \in 0..MaxLen}

LexInit ==
    /\ text \in LexTexts
    /\ scan = NoScan
    /\ runs = 0
    /\ GLOBAL = SymbolTable
    /\ before = SymbolTable
    /\ out = Out(Null, NoError, FALSE, Start(SymbolTable))
    /\ ast = ParseResult

Scan ==
    /\ runs = 0
    /\ scan' = makeTokens(text)
    /\ runs' = 1
    /\ UNCHANGED <<GLOBAL, before, text, out, ast>>

LexNext == Scan

SpecLex == LexInit /\ [][LexNext]_vars

-----------------------------------------------------------------------------
(* Properties                                                              *)

\* the value v is the whole number m
NumIs(v, m) == v.k = "num" /\ v.n = m /\ v.d = 1

\* the last run walked a node that binds nm
Assigned(walk, nm) == \E j \in 1..Len(walk) : walk[j].name = nm

\* the last run called traverse on node
Visited(walk, node) ==
    \E j \in 1..Len(walk) :
        walk[j].type = node.type /\ walk[j].at = node.start.idx

\* the last run returned a pair without a diagnostic
Returned == ~out.threw /\ out.error = NoError

\* C1: for every source text run returns a (value, diagnostic) pair and
\* never throws an uncaught exception, also for programs that use NOT,
\* WHILE, ELIF, or a "no value" result as an operand or assigned value.
C1_NeverThrows == ~out.threw

\* C2: the diagnostic run returns is non-null exactly when the scan, the
\* parse or the evaluation failed (and it is that stage's diagnostic), and
\* the value is null whenever the diagnostic is non-null.
C2_DiagnosticIffFailed ==
    ~out.threw =>
        /\ scan.error # NoError => out.error = scan.error
        /\ (scan.error = NoError /\ ast.error # NoError) =>
               out.error = ast.error
        /\ (scan.error = NoError /\ ast.error = NoError) =>
               out.error.name \in {"none", "Runtime Error"}
        /\ out.error # NoError => out.value = Null
        /\ out.value # Null => scan.error = NoError /\ ast.error = NoError

C2_Witness ==
    /\ out.error.name = "Runtime Error"
    /\ out.value = Null
    /\ Len(out.walk) > 1

\* C3: the pipeline is fail-fast: after a lexical diagnostic run has not
\* parsed and not evaluated, after a syntax diagnostic it has not evaluated,
\* and in both cases the global environment is what it was before the call.
C3_FailFast ==
    /\ scan.error # NoError =>
           /\ ast = ParseResult
           /\ out.walk = <<>>
           /\ GLOBAL = before
    /\ (scan.error = NoError /\ ast.error # NoError) =>
           /\ out.walk = <<>>
           /\ GLOBAL = before

C3_Witness ==
    /\ text = T_TrailAssign
    /\ ast.error.name = "Invalid Syntax"
    /\ ast.node.type = "VariableAssignNode"
    /\ NumIs(before["x"], 5)
    /\ GLOBAL = before

\* C4: the one global environment persists across run calls: a run that
\* binds no name nm leaves nm as it was, a later "x + 1" reads the value a
\* former run left in x, and "VAR x = 5" followed by "x + 1" return 5 and 6.
C4_Persistence ==
    [][/\ \A nm \in Names :
              ~Assigned(out'.walk, nm) => GLOBAL'[nm] = GLOBAL[nm]
       /\ (text' = T_XPlus1 /\ GLOBAL["x"].k = "num" /\ runs' = runs + 1) =>
              /\ ~out'.threw
              /\ out'.error = NoError
              /\ valueOf(out'.value)
                    = Norm(GLOBAL["x"].n + GLOBAL["x"].d, GLOBAL["x"].d)
       /\ (text = T_VarX5 /\ text' = T_XPlus1 /\ runs' = runs + 1) =>
              /\ NumIs(out.value, 5)
              /\ NumIs(out'.value, 6)
      ]_vars

C4_Witness ==
    /\ runs = 3
    /\ text = T_XPlus1
    /\ NumIs(before["x"], 5)
    /\ NumIs(out.value, 6)
    /\ Returned

\* the loops "FOR i = a UPTO b DO VAR r = i" of the model, a < b
ForCases ==
    {[t |-> T_For03, a |-> 0, b |-> 3], [t |-> T_For01, a |-> 0, b |-> 1],
     [t |-> T_For12, a |-> 1, b |-> 2], [t |-> T_For13, a |-> 1, b |-> 3]}

\* C5: for a < b and no STEP, "FOR i = a UPTO b DO body" evaluates the body
\* b - a times with i = a, a+1, ..., b-1, yields no value and no
\* diagnostic, and leaves i (and the r of "VAR r = i") bound to b-1.
C5_ForIterations ==
    \A c \in ForCases :
        text = c.t =>
            /\ Returned
            /\ out.value = Null
            /\ Len(out.log) = c.b - c.a
            /\ \A j \in 1..Len(out.log) : out.log[j] = Whole(c.a + j - 1)
            /\ NumIs(GLOBAL["i"], c.b - 1)
            /\ NumIs(GLOBAL["r"], c.b - 1)

\* C6: after "VAR i = 0", "WHILE i < n DO VAR i = i + 1" terminates with
\* no value and no diagnostic and leaves i bound to n (n = 3 and n = 0).
C6_WhileTerminates ==
    /\ (text = T_While3 /\ NumIs(before["i"], 0)) =>
           Returned /\ out.value = Null /\ NumIs(GLOBAL["i"], 3)
    /\ (text = T_While0 /\ NumIs(before["i"], 0)) =>
           Returned /\ out.value = Null /\ NumIs(GLOBAL["i"], 0)

\* C7: a Conditional evaluates only the body of the first case whose
\* condition is nonzero and returns its value; when no condition is
\* nonzero it evaluates only the ELSE body, or yields no value and no
\* diagnostic when there is none; "IF 0 DO 1 ELSE 2" is 2 and
\* "IF 1 DO 1 ELSE 2" is 1.
C7_Conditional ==
    /\ text = T_If0 => Returned /\ NumIs(out.value, 2)
    /\ text = T_If1 => Returned /\ NumIs(out.value, 1)
    /\ text = T_IfAssign0 =>
           /\ Returned /\ NumIs(out.value, 2)
           /\ NumIs(GLOBAL["r"], 2)
           /\ GLOBAL["x"] = before["x"]
    /\ text = T_IfAssign1 =>
           /\ Returned /\ NumIs(out.value, 1)
           /\ NumIs(GLOBAL["x"], 1)
           /\ GLOBAL["r"] = before["r"]
    /\ text = T_IfNoElse0 =>
           Returned /\ out.value = Null /\ GLOBAL = before
    /\ text = T_IfNoElse2 =>
           Returned /\ NumIs(out.value, 1) /\ NumIs(GLOBAL["x"], 1)
    /\ text = T_IfCondAssign =>
           /\ Returned /\ NumIs(out.value, 0)
           /\ NumIs(GLOBAL["n"], 0) /\ NumIs(GLOBAL["r"], 0)
           /\ GLOBAL["x"] = before["x"]
    /\ (scan.error = NoError /\ ast.error = NoError /\ Returned
        /\ ast.node.type = "IfStatementNode") =>
           LET node == ast.node
               bodies == {node.cases[j][2] : j \in 1..Len(node.cases)}
               taken == {b \in bodies : Visited(out.walk, b)}
           IN  /\ Cardinality(taken) <= 1
               /\ Visited(out.walk, node.cases[1][1])
               /\ node.elseCase # NoNode =>
                      (Visited(out.walk, node.elseCase) <=> taken = {})

C7_Witness ==
    /\ text = T_IfAssign0
    /\ NumIs(GLOBAL["r"], 2)
    /\ GLOBAL["x"].k = "undef"
    /\ Returned

\* the texts a^b^c of the model
PowTexts == {T_Pow232, T_Pow322, T_Pow223, T_Pow321, T_PowX, T_PowParen}

\* node is a '^' whose right operand is a '^' and whose left operand is not
PowRight(node) ==
    /\ node.type = "BinaryOpNode" /\ node.op.type = POW
    /\ node.right.type = "BinaryOpNode" /\ node.right.op.type = POW
    /\ ~(node.left.type = "BinaryOpNode" /\ node.left.op.type = POW)

\* C8: the power operator is right-associative: "a^b^c" parses as a^(b^c)
\* and evaluates to that value; "2^3^2" evaluates to 512.
C8_PowerRightAssoc ==
    /\ text \in PowTexts =>
           scan.error = NoError /\ ast.error = NoError /\ PowRight(ast.node)
    /\ text = T_Pow232 => Returned /\ NumIs(out.value, 512)
    /\ text = T_Pow223 => Returned /\ NumIs(out.value, 256)
    /\ text = T_Pow322 => Returned /\ NumIs(out.value, 81)
    /\ text = T_Pow321 => Returned /\ NumIs(out.value, 9)
    /\ text = T_PowParen => Returned /\ NumIs(out.value, 512)
    /\ (text = T_PowX /\ before["x"].k = "num") =>
           Returned /\ valueOf(out.value) = valueOf(before["x"])

C8_Witness ==
    /\ text = T_Pow232
    /\ PowRight(ast.node)
    /\ NumIs(out.value, 512)

\* the last run returned no value and a division-by-zero diagnostic whose
\* span is [s, e)
DivZeroAt(s, e) ==
    /\ ~out.threw
    /\ out.value = Null
    /\ out.error.name = "Runtime Error"
    /\ out.error.details = "Division by zero"
    /\ out.error.start.idx = s
    /\ out.error.end.idx = e

\* C9: a division whose right operand evaluates to 0 yields no value and a
\* "Division by zero" diagnostic whose span is exactly the span of the
\* right operand, wherever the division stands in the text.
C9_DivZeroSpan ==
    /\ text = T_Div30 => DivZeroAt(2, 3)
    /\ text = T_Div30Sp => DivZeroAt(2, 3)
    /\ text = T_Div30Plus => DivZeroAt(2, 3)
    /\ text = T_DivThenAssign => DivZeroAt(2, 3)
    /\ text = T_AssignDiv => DivZeroAt(16, 17)

\* every character of t is in chars
AllIn(t, chars) == \A j \in 1..Len(t) : t[j] \in chars

Dots(t) == Cardinality({j \in 1..Len(t) : t[j] = "."})

NotDot(c) == c # "."

\* the whole number a sequence of digits writes, read from the left
RECURSIVE Decimal(_, _)
Decimal(t, acc) ==
    IF t = <<>> THEN acc ELSE Decimal(Tail(t), 10 * acc + DigitVal(Head(t)))

\* the digits after the '.' of t
Fraction(t) == Len(t) - (CHOOSE j \in 1..Len(t) : t[j] = ".")

\* C10: a number literal takes digits and at most one '.': digits with one
\* '.' scan to one FLOAT token and EOF ("12.5" is FLOAT 12.5), digits alone
\* to one INT token and EOF, and a second '.' ends the literal unconsumed,
\* so the scan fails with an illegal-character diagnostic that starts at
\* that '.' ("1..2" fails at offset 2).
C10_NumberLiteral ==
    (runs = 1 /\ text # <<>> /\ text[1] \in DIGITS) =>
        /\ AllIn(text, DIGITS) =>
               /\ scan.error = NoError
               /\ Len(scan.tokens) = 2
               /\ scan.tokens[1].type = INT
               /\ scan.tokens[1].value = NumV(Whole(Decimal(text, 0)))
               /\ scan.tokens[2].type = EOF
        /\ (AllIn(text, DIGITS \cup {"."}) /\ Dots(text) = 1) =>
               /\ scan.error = NoError
               /\ Len(scan.tokens) = 2
               /\ scan.tokens[1].type = FLOAT
               /\ scan.tokens[1].value.k = "num"
               /\ scan.tokens[1].value.n * Pow10(Fraction(text))
                     = scan.tokens[1].value.d
                          * Decimal(SelectSeq(text, NotDot), 0)
               /\ scan.tokens[2].type = EOF
        /\ \A k \in 1..Len(text) :
               (/\ text[k] = "."
                /\ AllIn(SubSeq(text, 1, k), DIGITS \cup {"."})
                /\ Dots(SubSeq(text, 1, k)) = 2) =>
                   /\ scan.tokens = <<>>
                   /\ scan.error.name = "Illegal Character"
                   /\ scan.error.details = "'.'"
                   /\ scan.error.start.idx = k - 1
        /\ text = <<"1", "2", ".", "5">> =>
               scan.tokens[1].value = NumV(Norm(25, 2))

C10_Witness ==
    /\ runs = 1
    /\ text = <<"1", ".", ".", "2">>
    /\ scan.tokens = <<>>
    /\ scan.error.name = "Illegal Character"
    /\ scan.error.start.idx = 2

\* the parser state in which parse returns for the tokens
Reached(tokens) == rule("expr", tokens, Parser(tokens)).P

\* the diagnostic of atom
AtomExpected == "Expected int, float, identifier, '+', '-' or '('"

\* a diagnostic no rule raises
Probe == InvalidSyntaxError(NoPos, NoPos, "probe")

\* C11: when parse fails its diagnostic is the one of the rule attempt that
\* went furthest: it lies on the furthest token the parser reached, the
\* failure of an enclosing rule that has consumed tokens does not replace
\* it ("1 +" and "1 AND" keep the diagnostic of atom), and failure replaces
\* a registered error only in a result that has consumed no token.
C11_FurthestProgress ==
    /\ (scan.error = NoError /\ ast.error # NoError) =>
           /\ ast.error.name = "Invalid Syntax"
           /\ ast.error.start = Reached(scan.tokens).curr.start
           /\ ast.error.end = Reached(scan.tokens).curr.end
           /\ \A j \in 1..Len(scan.tokens) :
                  scan.tokens[j].start.idx > ast.error.start.idx =>
                      j > Reached(scan.tokens).idx + 1
           /\ failure(ast, Probe).error
                 = IF ast.stepCount = 0 THEN Probe ELSE ast.error
    /\ (runs > 0 /\ text \in {T_Trailing, T_AndDangling, T_Empty}) =>
           ast.error.details = AtomExpected
    /\ text = T_ParenOpen => ast.error.details = "Expected ')'"
    /\ text = T_VarSyntax => ast.error.details = "Expected '='"

C11_Witness ==
    /\ text = T_Trailing
    /\ ast.stepCount = 2
    /\ ast.error.details = AtomExpected
    /\ ast.error.start.idx = 3
    /\ Reached(scan.tokens).curr.type = EOF

\* C12: scan returns either tokens and no diagnostic, the last token and
\* only the last being EOF (exactly <<EOF>> for the empty text), or a
\* diagnostic and no token at all.
C12_ScanShape ==
    runs = 1 =>
        /\ scan.error = NoError =>
               /\ Len(scan.tokens) >= 1
               /\ scan.tokens[Len(scan.tokens)].type = EOF
               /\ \A j \in 1..(Len(scan.tokens) - 1) :
                      scan.tokens[j].type # EOF
        /\ scan.error # NoError => scan.tokens = <<>>
        /\ text = <<>> =>
               /\ scan.error = NoError
               /\ Len(scan.tokens) = 1
               /\ scan.tokens[1].type = EOF

C12_Witness ==
    /\ runs = 1
    /\ text = <<"1", " ", "a", "\n">>
    /\ scan.tokens = <<>>
    /\ scan.error.name = "Illegal Character"

\* text has the character c at offset k - 1, after whitespace only, so that
\* makeTokens meets c at the head of its loop
OperatorAt(k, c) ==
    /\ k \in 1..Len(text)
    /\ text[k] = c
    /\ AllIn(SubSeq(text, 1, k - 1), WHITESPACE)

\* the character after offset k - 1 is '='
EqualsNext(k) == k < Len(text) /\ text[k + 1] = "="

\* the first token has the type two when '=' follows offset k - 1 and the
\* type one otherwise; the two characters alone make one token
FirstIs(k, two, one) ==
    /\ scan.error = NoError =>
           scan.tokens[1].type = IF EqualsNext(k) THEN two ELSE one
    /\ (EqualsNext(k) /\ Len(text) = k + 1) =>
           /\ scan.error = NoError
           /\ Len(scan.tokens) = 2
           /\ scan.tokens[2].type = EOF

PlainBefore(k) ==
    AllIn(SubSeq(text, 1, k - 1), DIGITS \cup LETTERS \cup WHITESPACE)

\* the scan failed on the character c at offset k - 1
IllegalAt(k, c) ==
    /\ scan.tokens = <<>>
    /\ scan.error.name = "Illegal Character"
    /\ scan.error.details = "'" \o c \o "'"
    /\ scan.error.start = Position(k - 1, 0, k - 1)
    /\ scan.error.end.idx = k

Top(tokens) == rule("expr", tokens, Parser(tokens)).res

\* the diagnostic of parse
EndExpected == "'Expected '+', '-', '*' or '/'"

\* parse failed on the token number j with the diagnostic of parse
TrailingAt(j) ==
    /\ ast.error.name = "Invalid Syntax"
    /\ ast.error.details = EndExpected
    /\ ast.error.start = scan.tokens[j].start
    /\ ast.error.end = scan.tokens[j].end
    /\ Reached(scan.tokens).idx = j - 1
    /\ out.error = ast.error

\* C15: when a complete expression has been parsed and the current token
\* is not EOF, parse fails with an Invalid Syntax diagnostic located at
\* that first unconsumed token; parse succeeds only when every token up to
\* EOF was consumed; "n = 2 + 1" without VAR fails at its '=' token.
C15_TrailingTokens ==
    (runs > 0 /\ scan.error = NoError) =>
        /\ (/\ Top(scan.tokens).error = NoError
            /\ Reached(scan.tokens).curr.type # EOF) =>
               TrailingAt(Reached(scan.tokens).idx + 1)
        /\ ast.error = NoError =>
               /\ Reached(scan.tokens).curr.type = EOF
               /\ Reached(scan.tokens).idx = Len(scan.tokens) - 1
        /\ text = T_DriverAssign =>
               TrailingAt(2) /\ scan.tokens[2].type = ASSIGN
        /\ text = T_XTrailing => TrailingAt(2) /\ scan.tokens[2].type = INT
        /\ text = T_TrailAssign =>
               TrailingAt(5) /\ scan.tokens[5].type = INT

C15_Witness ==
    /\ text = T_DriverAssign
    /\ TrailingAt(2)
    /\ scan.tokens[2].type = ASSIGN
    /\ NumIs(before["n"], 0)
    /\ GLOBAL = before

\* the last text parsed into a Conditional of n cases
Conditional(n) ==
    /\ scan.error = NoError
    /\ ast.error = NoError
    /\ ~ast.threw
    /\ ast.node.type = "IfStatementNode"
    /\ Len(ast.node.cases) = n

\* C16: the conditional rule accepts IF expr DO expr, any number of
\* ELIF expr DO expr clauses and an optional ELSE expr: a well-formed text
\* with k ELIF clauses parses without diagnostic into one Conditional of
\* k + 1 cases in source order.
C16_ElifCases ==
    /\ text = T_Elif =>
           /\ Conditional(2)
           /\ ast.node.cases[1][1].token.start.idx = 3
           /\ ast.node.cases[2][1].token.start.idx = 15
           /\ ast.node.elseCase # NoNode
    /\ text = T_ElifNoElse =>
           /\ Conditional(2)
           /\ ast.node.cases[2][2].token.start.idx = 20
           /\ ast.node.elseCase = NoNode
    /\ text \in {T_If0, T_If1} => Conditional(1)

\* the last text failed to scan or to parse
Malformed == runs > 0 /\ (scan.error # NoError \/ ast.error # NoError)

\* what run returns for the last text as the first call of a process
Fresh == run(text, SymbolTable)

\* C17: diagnostics are deterministic and independent of the environment:
\* a malformed text yields in every call, whatever the calls before it
\* made of the global environment, the scan and the parse result and the
\* diagnostic (kind, details, span) it yields as the first call of a
\* process.
C17_Deterministic ==
    Malformed =>
        /\ scan = Fresh.scan
        /\ ast = Fresh.ast
        /\ out.error = Fresh.out.error
        /\ out.error = IF scan.error # NoError THEN scan.error ELSE ast.error

C17_Witness ==
    /\ runs = 3
    /\ text = T_XTrailing
    /\ NumIs(before["x"], 5)
    /\ NumIs(before["i"], 0)
    /\ out.error.details = EndExpected
    /\ out.error = Fresh.out.error

\* the last text is an Assignment and run has evaluated it
AssignmentRun ==
    /\ runs > 0
    /\ scan.error = NoError
    /\ ast.error = NoError
    /\ ~ast.threw
    /\ ast.node.type = "VariableAssignNode"

\* the evaluation of the value expression of the last text, alone, in the
\* environment the call started with
Inner == traverse(ast.node.value, MAIN, Start(before))

\* C18: an Assignment evaluates its value expression first; on success it
\* binds the name to that value in the environment and yields the value;
\* when the value expression fails its diagnostic is returned unchanged and
\* the binding of the name stays what it was, unbound or the former value.
C18_Assignment ==
    /\ (AssignmentRun /\ ~Inner.threw) =>
           /\ out.walk[1].type = "VariableAssignNode"
           /\ Tail(out.walk) = Inner.S.walk
           /\ Inner.error = NoError =>
                  /\ Returned
                  /\ out.value = Inner.value
                  /\ GLOBAL = set(Inner.S.env, Binds(ast.node), Inner.value)
           /\ Inner.error # NoError =>
                  /\ ~out.threw
                  /\ out.value = Null
                  /\ out.error = Inner.error
                  /\ GLOBAL = Inner.S.env
                  /\ GLOBAL[Binds(ast.node)] = before[Binds(ast.node)]
    /\ text = T_VarX5 =>
           Returned /\ NumIs(out.value, 5) /\ NumIs(GLOBAL["x"], 5)
    /\ text = T_VarDiv =>
           DivZeroAt(10, 11) /\ GLOBAL["x"] = before["x"]
    /\ (text = T_VarIInc /\ before["i"].k = "undef") =>
           /\ out.error.details = "'i' is not defined"
           /\ GLOBAL["i"].k = "undef"

C18_Witness ==
    /\ text = T_VarDiv
    /\ AssignmentRun
    /\ NumIs(before["x"], 5)
    /\ NumIs(GLOBAL["x"], 5)
    /\ DivZeroAt(10, 11)

\* the last text is a VariableRef and run has evaluated it
VariableRun ==
    /\ runs > 0
    /\ scan.error = NoError
    /\ ast.error = NoError
    /\ ast.node.type = "VariableNode"

C20_Truthiness ==
    /\ text = T_And11 => Returned /\ NumIs(out.value, 1)
    /\ text = T_And10 => Returned /\ NumIs(out.value, 0)
    /\ text = T_And23 => Returned /\ NumIs(out.value, 1)
    /\ text = T_Or01 => Returned /\ NumIs(out.value, 1)
    /\ text = T_Or00 => Returned /\ NumIs(out.value, 0)
    /\ text = T_Or20 => Returned /\ NumIs(out.value, 1)

\* C21: NOT on a number yields 0 when the operand is nonzero and 1 when it
\* is zero, with no diagnostic; unary '-' yields the operand times -1.
C21_Unary ==
    /\ text = T_Not0 => Returned /\ NumIs(out.value, 1)
    /\ text = T_Not1 => Returned /\ NumIs(out.value, 0)
    /\ text = T_Not2 => Returned /\ NumIs(out.value, 0)
    /\ text = T_Neg2 => Returned /\ NumIs(out.value, -2)
    /\ (text = T_NegX /\ before["x"].k = "num") =>
           /\ Returned
           /\ valueOf(out.value) = Norm(-before["x"].n, before["x"].d)

\* the last text is a BinaryOp and run has evaluated it
BinaryRun ==
    /\ runs > 0
    /\ scan.error = NoError
    /\ ast.error = NoError
    /\ ~ast.threw
    /\ ast.node.type = "BinaryOpNode"

\* the evaluation of the left operand of the last text, alone, in the
\* environment the call started with, and of the right operand after it
LeftAlone == traverse(ast.node.left, MAIN, Start(before))

RightAfter == traverse(ast.node.right, MAIN, LeftAlone.S)

\* position in the walk of the first visit that binds nm, 0 when none does
FirstBinding(walk, nm) ==
    IF Assigned(walk, nm)
    THEN CHOOSE j \in 1..Len(walk) :
             /\ walk[j].name = nm
             /\ \A h \in 1..(j - 1) : walk[h].name # nm
    ELSE 0

\* C22: a BinaryOp evaluates its left operand, then its right operand, and
\* the right operand always, also for AND and OR: nothing short-circuits,
\* so the assignment in the right operand of '0 AND (VAR x = 1)' and of
\* '1 OR (VAR x = 1)' is performed.
C22_NoShortCircuit ==
    /\ (BinaryRun /\ ~LeftAlone.threw /\ LeftAlone.error = NoError) =>
           /\ out.walk[1].type = "BinaryOpNode"
           /\ Tail(out.walk) = RightAfter.S.walk
           /\ Visited(out.walk, ast.node.right)
           /\ GLOBAL = RightAfter.S.env
    /\ text = T_AndAssign =>
           /\ Returned
           /\ NumIs(out.value, 0)
           /\ Assigned(out.walk, "x")
           /\ NumIs(GLOBAL["x"], 1)
    /\ text = T_OrAssign =>
           /\ Returned
           /\ NumIs(out.value, 1)
           /\ Assigned(out.walk, "x")
           /\ NumIs(GLOBAL["x"], 1)
    /\ text = T_PlusAssign =>
           /\ Returned
           /\ NumIs(out.value, 3)
           /\ NumIs(GLOBAL["r"], 2)
           /\ NumIs(GLOBAL["x"], 1)
           /\ 0 < FirstBinding(out.walk, "r")
           /\ FirstBinding(out.walk, "r") < FirstBinding(out.walk, "x")

C22_Witness ==
    /\ text = T_AndAssign
    /\ BinaryRun
    /\ before["x"].k = "undef"
    /\ NumIs(out.value, 0)
    /\ NumIs(GLOBAL["x"], 1)
    /\ Visited(out.walk, ast.node.right)

\* the last run returned the "Division by zero" diagnostic that starts at s
DivZeroFrom(s) ==
    /\ ~out.threw
    /\ out.value = Null
    /\ out.error.name = "Runtime Error"
    /\ out.error.details = "Division by zero"
    /\ out.error.start.idx = s

\* C23: a runtime diagnostic produced by a subexpression aborts the rest of
\* the tree walk: nothing later in evaluation order is evaluated (a failing
\* left operand prevents the right operand's assignments, a failing loop
\* body ends the loop, a failing condition prevents every body), and run
\* returns the diagnostic first produced, unchanged.
C23_Abort ==
    /\ (BinaryRun /\ ~LeftAlone.threw /\ LeftAlone.error # NoError) =>
           /\ ~out.threw
           /\ out.value = Null
           /\ out.error = LeftAlone.error
           /\ Tail(out.walk) = LeftAlone.S.walk
           /\ GLOBAL = LeftAlone.S.env
    /\ (BinaryRun /\ ~LeftAlone.threw /\ LeftAlone.error = NoError
          /\ ~RightAfter.threw /\ RightAfter.error # NoError) =>
           /\ ~out.threw
           /\ out.value = Null
           /\ out.error = RightAfter.error
           /\ Tail(out.walk) = RightAfter.S.walk
    /\ text = T_DivThenAssign =>
           /\ DivZeroFrom(2)
           /\ ~Assigned(out.walk, "x")
           /\ GLOBAL = before
    /\ text = T_DivDiv =>
           /\ DivZeroFrom(2)
           /\ Len(out.walk) = 4
    /\ text = T_ForDiv =>
           /\ DivZeroFrom(22)
           /\ Len(out.log) = 1
           /\ NumIs(GLOBAL["i"], 0)
    /\ text = T_IfDiv =>
           /\ DivZeroFrom(5)
           /\ ~Assigned(out.walk, "x")
           /\ ~Assigned(out.walk, "r")
           /\ GLOBAL = before

C23_Witness ==
    /\ text = T_DivThenAssign
    /\ BinaryRun
    /\ LeftAlone.error # NoError
    /\ out.error = LeftAlone.error
    /\ NumIs(before["x"], 5)
    /\ NumIs(GLOBAL["x"], 5)
    /\ ~Visited(out.walk, ast.node.right)

\* the BoundedLoops with a STEP, or with a condition false at the start,
\* and the values the loop variable is to take
StepCases ==
    { [t |-> T_ForStep2, vals |-> <<0, 2>>],
      [t |-> T_ForDown, vals |-> <<1, 0>>],
      [t |-> T_ForStep1, vals |-> <<0>>],
      [t |-> T_ForEmpty, vals |-> <<>>],
      [t |-> T_ForEmptyDown, vals |-> <<>>] }

\* C24: a BoundedLoop with STEP s iterates while current < end for s >= 0
\* and while current > end for s < 0, the end exclusive: the loop variable
\* takes start, start+s, ... short of end; when the condition is false at
\* the start the body is never evaluated and the loop binds nothing.
C24_StepIterations ==
    \A c \in StepCases :
        text = c.t =>
            /\ Returned
            /\ out.value = Null
            /\ Len(out.log) = Len(c.vals)
            /\ \A j \in 1..Len(out.log) : out.log[j] = Whole(c.vals[j])
            /\ c.vals # <<>> =>
                   /\ NumIs(GLOBAL["i"], c.vals[Len(c.vals)])
                   /\ NumIs(GLOBAL["r"], c.vals[Len(c.vals)])
            /\ c.vals = <<>> =>
                   /\ ~Visited(out.walk, ast.node.body)
                   /\ GLOBAL = before

\* the last text is a BoundedLoop and run has evaluated it
ForRun ==
    /\ runs > 0
    /\ scan.error = NoError
    /\ ast.error = NoError
    /\ ~ast.threw
    /\ ast.node.type = "ForNode"

\* the evaluation of the start, end and step expressions of the last text,
\* one after the other, in the environment the call started with
StartAlone == traverse(ast.node.startVal, MAIN, Start(before))

EndAfter == traverse(ast.node.endVal, MAIN, StartAlone.S)

StepAfter ==
    IF ast.node.stepVal # NoNode
    THEN traverse(ast.node.stepVal, MAIN, EndAfter.S)
    ELSE EndAfter

BoundsOk ==
    /\ ~StartAlone.threw /\ StartAlone.error = NoError
    /\ ~EndAfter.threw /\ EndAfter.error = NoError
    /\ ~StepAfter.threw /\ StepAfter.error = NoError

\* the number of visits the walk pays to node
Count(walk, node) ==
    Cardinality({j \in 1..Len(walk) :
                    walk[j].type = node.type /\ walk[j].at = node.start.idx})

\* the loop of the last text with a body that assigns nothing
PlainLoop ==
    traverse([ast.node EXCEPT !.body = ast.node.startVal], MAIN,
             Start(before))

\* C25: a BoundedLoop evaluates its start, end and step expressions exactly
\* once, before the first iteration, and keeps its counter apart from the
\* binding of the loop variable: what the body assigns to the loop variable
\* or to a variable of the bound expressions changes neither the number of
\* iterations nor the values the loop variable is rebound to.
C25_BoundsOnce ==
    /\ (ForRun /\ BoundsOk) =>
           /\ out.walk[1].type = "ForNode"
           /\ SubSeq(out.walk, 2, 1 + Len(StepAfter.S.walk))
                 = StepAfter.S.walk
           /\ Count(out.walk, ast.node.startVal) = 1
           /\ Count(out.walk, ast.node.endVal) = 1
           /\ ast.node.stepVal # NoNode =>
                  Count(out.walk, ast.node.stepVal) = 1
           /\ \A j \in 1..Len(out.walk) :
                  (/\ out.walk[j].type = ast.node.body.type
                   /\ out.walk[j].at = ast.node.body.start.idx)
                      => j > 1 + Len(StepAfter.S.walk)
    /\ (ForRun /\ BoundsOk /\ Returned) => out.log = PlainLoop.S.log
    /\ text = T_ForAssignVar =>
           /\ Returned
           /\ out.log = run(T_For03, before).out.log
           /\ out.log[1] = Whole(0)
           /\ NumIs(GLOBAL["i"], 1)
    /\ (text = T_ForAssignEnd /\ NumIs(before["n"], 2)) =>
           /\ Returned
           /\ out.log # <<>>
           /\ out.log[1] = Whole(0)
           /\ NumIs(GLOBAL["n"], 0)

C25_Witness ==
    /\ text = T_ForAssignEnd
    /\ ForRun
    /\ NumIs(before["n"], 2)
    /\ NumIs(GLOBAL["n"], 0)
    /\ Count(out.walk, ast.node.endVal) = 1
    /\ Visited(out.walk, ast.node.body)
    /\ out.log = PlainLoop.S.log

\* the number of characters of the text from index k on that are in chars,
\* up to the first that is not
RECURSIVE RunLen(_, _)
RunLen(k, chars) ==
    IF k <= Len(text) /\ text[k] \in chars
    THEN 1 + RunLen(k + 1, chars)
    ELSE 0

\* offset of the first character that is no space and no tab
Lead == RunLen(1, WHITESPACE)

\* the number of characters of the token that starts at offset Lead
FirstLength ==
    LET c == text[Lead + 1]
    IN  IF c \in DIGITS THEN RunLen(Lead + 1, DIGITS \cup {"."})
        ELSE IF c \in LETTERS
        THEN RunLen(Lead + 1, LETTERS \cup DIGITS \cup {"_"})
        ELSE IF c = "!" \/ EqualsNext(Lead + 1) THEN 2
        ELSE 1

\* C26: the positions of a token are snapshots, no aliases of the lexer's
\* position: after the scan a token other than EOF starts at the offset of
\* its first character and ends at the offset just past its last one,
\* whatever was scanned after it, for numbers, identifiers and operators of
\* one and of two characters.
C26_TokenSpans ==
    (runs = 1 /\ scan.error = NoError /\ Len(scan.tokens) > 1) =>
        /\ scan.tokens[1].start.idx = Lead
        /\ scan.tokens[1].end.idx = Lead + FirstLength

\* the character at offset k - 1 is a one-character '=', '<' or '>' operator
\* with a character after it
OneCharOperator(k) ==
    /\ k \in 1..(Len(text) - 1)
    /\ text[k] \in {"=", "<", ">"}
    /\ text[k + 1] # "="
    /\ k > 1 => text[k - 1] \notin {"=", "<", ">", "!"}

\* the text with a space put in after offset k - 1
Spaced(k) == SubSeq(text, 1, k) \o <<" ">> \o SubSeq(text, k + 1, Len(text))

\* kind and value of every token; operators and EOF have no value
Kinds(tokens) ==
    [j \in 1..Len(tokens) |->
        [type  |-> tokens[j].type,
         value |-> IF tokens[j].type \in {INT, FLOAT, IDENTIFIER, KEYWORD}
                   THEN tokens[j].value
                   ELSE NullV]]

\* C27: the lexer skips no input: the character right after a one-character
\* '=', '<' or '>' is scanned as the start of the next token, so a text
\* written without a space after such an operator scans as the text written
\* with one: same outcome, same token kinds and values.
C27_NothingSkipped ==
    runs = 1 =>
        \A k \in 1..Len(text) :
            OneCharOperator(k) =>
                /\ (scan.error = NoError)
                      <=> (makeTokens(Spaced(k)).error = NoError)
                /\ Kinds(scan.tokens) = Kinds(makeTokens(Spaced(k)).tokens)

\* C28: after any sequence of calls every name bound in the global
\* environment is bound to a number, never to the "no value" of a loop or
\* of a conditional without ELSE whose conditions are all false; hence a
\* VariableRef of a bound name yields a number.
C28_BoundToNumbers ==
    /\ \A nm \in Names : GLOBAL[nm].k # "null"
    /\ (VariableRun /\ before[ast.node.tokenID.value.s].k # "undef") =>
           /\ Returned
           /\ out.value.k # "null"

\* what the last run left in the environment when its walk failed
Kept ==
    /\ (BinaryRun /\ ~LeftAlone.threw /\ LeftAlone.error = NoError
          /\ ~RightAfter.threw /\ RightAfter.error # NoError) =>
           /\ out.error = RightAfter.error
           /\ GLOBAL = RightAfter.S.env
    /\ text = T_AssignDiv =>
           /\ DivZeroFrom(16)
           /\ NumIs(GLOBAL["x"], 1)
           /\ \A nm \in Names \ {"x"} : GLOBAL[nm] = before[nm]
    /\ text = T_ForDiv =>
           /\ DivZeroFrom(22)
           /\ NumIs(GLOBAL["i"], 0)
           /\ \A nm \in Names \ {"i"} : GLOBAL[nm] = before[nm]

\* C29: a runtime failure rolls nothing back: what the assignments and the
\* rebinds of a loop variable wrote before the diagnostic was produced
\* stays in the global environment when run returns the diagnostic, and
\* later calls see it: after '(VAR x = 1) + 1/0' returned the division by
\* zero, x is bound to 1.
C29_NoRollback ==
    [][/\ Kept'
       /\ (text = T_AssignDiv /\ text' = T_X /\ runs' = runs + 1) =>
              /\ ~out'.threw
              /\ out'.error = NoError
              /\ NumIs(out'.value, 1)
      ]_vars

C29_Witness ==
    /\ text = T_AssignDiv
    /\ BinaryRun
    /\ before["x"].k = "undef"
    /\ DivZeroFrom(16)
    /\ NumIs(GLOBAL["x"], 1)

\* C30: for the tokens of a successful scan parse ends with an AST root or
\* with a syntax diagnostic, and the parser's current token is always one
\* of these tokens: the parser never moves past EOF, where its current
\* token stays EOF, and no rule consumes a token after it.
C30_ParseTerminates ==
    (runs > 0 /\ scan.error = NoError) =>
        /\ ~ast.threw
        /\ ast.error = NoError => ast.node # NoNode
        /\ ast.error # NoError => ast.error.name = "Invalid Syntax"
        /\ Reached(scan.tokens).idx <= Len(scan.tokens) - 1
        /\ Reached(scan.tokens).curr
              = scan.tokens[Reached(scan.tokens).idx + 1]
        /\ Reached(scan.tokens).curr.type = EOF
              <=> Reached(scan.tokens).idx = Len(scan.tokens) - 1
        /\ ast.stepCount <= Len(scan.tokens) - 1
        /\ text = T_Empty => Reached(scan.tokens).idx = 0
        /\ text = T_AndDangling => Reached(scan.tokens).idx = 2

C30_Witness ==
    /\ text = T_AndDangling
    /\ scan.error = NoError
    /\ Len(scan.tokens) = 3
    /\ Reached(scan.tokens).idx = 2
    /\ Reached(scan.tokens).curr.type = EOF
    /\ ast.error.details = AtomExpected
    /\ ast.node = NoNode

=============================================================================
